---- MODULE Spec2Model ----
(***************************************************************************)
(* Verification model of engineering_audit_agent: the shared state record, *)
(* its merge combinators (state/normative_state.py,                        *)
(* state/consistency_state.py) and the three-step per-file verification    *)
(* pipeline (Detect, Extract, Verify) of the date, seal and signature      *)
(* namespaces, run as streaming sub-graphs of the normative graph.         *)
(***************************************************************************)
EXTENDS Integers, Sequences, FiniteSets, TLC

\* ------------------------------------------------------------------ bounds
MaxFiles == 2
MaxPages == 2
MaxIds == 2
NormFiles == 1
NormPages == 1
EqPages == 1
LoopPages == 1
MaxProposals == 3
MaxValue == 2
MaxDocs == 2
MaxItems == 2
MaxDates == 2
MaxGroups == 2
MaxGroupFiles == 1
MaxLaterFiles == 1
LongGroupFiles == 2
LongLaterFiles == 0
MaxOcrPages == 1

\* ------------------------------------------------------- names and fields
Namespaces == {"date", "seal", "signature"}

FilePool == <<"a.pdf", "b.pdf", "c.pdf", "d.pdf">>

None == "None"

FILES == <<"", "files">>
ERRORS == <<"", "errors">>

IndexField(ns, k) ==
    <<ns, <<"step1_current_file_index", "step2_current_file_index",
            "step3_current_file_index">>[k]>>

CurrentField(ns, k) ==
    <<ns, <<"step1_current_file", "step2_current_file", "step3_current_file">>[k]>>

\* variant: the three namespaces record their regions in one field
RegionsFieldOfDate(ns) == <<"date", "regions">>

RegionsField(ns) == <<ns, "regions">>

IdentifiersField(ns) == <<ns, "identifiers">>

IndexFields == {IndexField(ns, k) : ns \in Namespaces, k \in 1..3}

CurrentFields == {CurrentField(ns, k) : ns \in Namespaces, k \in 1..3}

MapFields == {RegionsField(ns) : ns \in Namespaces} \cup {IdentifiersField(ns) : ns \in Namespaces}

NormativeState == {FILES, ERRORS} \cup IndexFields \cup CurrentFields \cup MapFields

\* ------------------------------------------------------------- combinators
UNSET == <<"_UNSET">>

\* variant: the file list accumulates the lists proposed
take_first_adds(x, y) == x \o y

take_first(x, y) ==
    IF x = UNSET THEN y
    ELSE IF Len(x) = 0 /\ Len(y) > 0 THEN y
    ELSE x

\* variant: the counter accumulates the proposals
max_adds(x, y) == x + y

max_reducer(x, y) == IF x >= y THEN x ELSE y

\* variant: the pointer takes every proposal, null included
replace_optional_plain(x, y) == y

replace_optional(x, y) ==
    IF x = None THEN y
    ELSE IF y = None THEN x
    ELSE y

replace(x, y) == y

\* variant: the later list takes the place of the earlier one
add_latest(x, y) == y

\* operator.add on lists
add(x, y) == x \o y

\* variant: the record of the later branch takes the place of the earlier one
DictReplace(a, b) == b

\* dict.update: the entries of b win over the entries of a
DictUpdate(a, b) ==
    [k \in (DOMAIN a) \cup (DOMAIN b) |-> IF k \in DOMAIN b THEN b[k] ELSE a[k]]

DeepMerge(left, right) ==
    IF DOMAIN left = {} THEN right
    ELSE IF DOMAIN right = {} THEN left
    ELSE [k \in (DOMAIN left) \cup (DOMAIN right) |->
            IF k \notin DOMAIN left THEN right[k]
            ELSE IF k \notin DOMAIN right THEN left[k]
            ELSE DictUpdate(left[k], right[k])]

merge_ocr_results(left, right) == DeepMerge(left, right)

merge_extraction_results(left, right) == DeepMerge(left, right)

merge_metadata_list(left, right) ==
    IF Len(left) = 0 THEN right
    ELSE IF Len(right) = 0 THEN left
    ELSE left \o right

\* the combinator annotated on each field of NormativeState
Reduce(field, x, y) ==
    IF field = FILES THEN take_first(x, y)
    ELSE IF field = ERRORS THEN add(x, y)
    ELSE IF field \in IndexFields THEN max_reducer(x, y)
    ELSE IF field \in CurrentFields THEN replace_optional(x, y)
    ELSE replace(x, y)

\* one update (the dict a node returns) folded into a state record
ApplyUpdate(state, update) ==
    [f \in DOMAIN state |->
        IF f \in DOMAIN update THEN Reduce(f, state[f], update[f]) ELSE state[f]]

\* the value every channel of the record holds before its first write
ChannelDefaults ==
    [f \in NormativeState |->
        IF f \in IndexFields THEN 0
        ELSE IF f \in CurrentFields THEN None
        ELSE <<>>]

\* a (sub)graph invoked on an input: the input is written through the combinators
GraphInput(input) == ApplyUpdate(ChannelDefaults, input)

\* ------------------------------------------------- capability responses
\* load_images(file): raises, or returns the page images of the document
LoadOutcomes(n) == {[ok |-> FALSE, n |-> 0], [ok |-> TRUE, n |-> n]}

\* run_vision with the region-detection prompt: target present, absent, or a raised error
DetectOutcomes == {"yes", "no", "error"}

IdNames == {"buyer", ""}

IdDict(name, i) == [identifier |-> name, position |-> i]

IdLists ==
    UNION {{[i \in 1..n |-> IdDict(names[i], i)] : names \in [1..n -> IdNames]} : n \in 0..MaxIds}

\* run_vision with the identifier-extraction prompt: a raised error, or the
\* has-identifier flag together with the identifier list
ExtractOutcomes ==
    {[err |-> TRUE, has |-> FALSE, list |-> <<>>]}
    \cup {[err |-> FALSE, has |-> h, list |-> l] : h \in BOOLEAN, l \in IdLists}

\* run_vision with the status prompt for one identifier
VerifyOutcomes == {"positive", "negative", "error"}

\* ------------------------------------------------------------ map helpers
Get(m, k, default) == IF k \in DOMAIN m THEN m[k] ELSE default

Put(m, k, v) == [x \in (DOMAIN m) \cup {k} |-> IF x = k THEN v ELSE m[x]]

RECURSIVE Ascending(_)
Ascending(S) ==
    IF S = {} THEN <<>>
    ELSE LET lo == CHOOSE x \in S : \A y \in S : x <= y
         IN <<lo>> \o Ascending(S \ {lo})

Range(s) == {s[i] : i \in DOMAIN s}

\* ------------------------------------------------------------ stage nodes
\* variant: Extract and Verify take the file Detect processed last
CurrentFileOfDetect(state, ns, k) ==
    IF k = 1 THEN state[FILES][state[IndexField(ns, 1)] + 1]
    ELSE state[FILES][IF state[IndexField(ns, 1)] = 0 THEN 1 ELSE state[IndexField(ns, 1)]]

CurrentFile(state, ns, k) == state[FILES][state[IndexField(ns, k)] + 1]

\* variant: every stage compares Detect's index with the length of the list
InRangeOfDetect(state, ns, k) == state[IndexField(ns, 1)] < Len(state[FILES])

InRange(state, ns, k) == state[IndexField(ns, k)] < Len(state[FILES])

\* variant: a file that cannot be loaded is left for a later attempt
load_failed_stays(ns, k, idx, current_file) ==
    (IndexField(ns, k) :> idx) @@ (CurrentField(ns, k) :> current_file)

\* what a stage returns when load_images raised, or when it has nothing to do
\* for the file: the index moves on and the file is recorded
load_failed(ns, k, idx, current_file) ==
    (IndexField(ns, k) :> idx + 1) @@ (CurrentField(ns, k) :> current_file)

\* the pages Detect sends to the vision capability
DetectCalls(ns, state, load) ==
    IF InRange(state, ns, 1) /\ load.ok THEN 1..load.n ELSE {}

detect_regions_in_file(ns, state, load, resp) ==
    LET idx == state[IndexField(ns, 1)] IN
    IF ~InRange(state, ns, 1)
    THEN (IndexField(ns, 1) :> idx) @@ (CurrentField(ns, 1) :> None)
    ELSE LET current_file == CurrentFile(state, ns, 1) IN
         IF ~load.ok
         THEN load_failed(ns, 1, idx, current_file)
         ELSE LET pages_with_field ==
                      SelectSeq([i \in 1..load.n |-> i], LAMBDA p : resp[p] = "yes")
                  regions == state[RegionsField(ns)]
              IN (IndexField(ns, 1) :> idx + 1)
                 @@ (CurrentField(ns, 1) :> current_file)
                 @@ (RegionsField(ns) :>
                        IF pages_with_field # <<>>
                        THEN Put(regions, current_file, pages_with_field)
                        ELSE regions)

\* variant: Extract sends every page of the document
ExtractCallsAllPages(ns, state, load) ==
    IF InRange(state, ns, 2) /\ load.ok THEN 1..load.n ELSE {}

\* the pages Extract sends to the vision capability
ExtractCalls(ns, state, load) ==
    IF InRange(state, ns, 2) /\ load.ok
    THEN {p \in Range(Get(state[RegionsField(ns)], CurrentFile(state, ns, 2), <<>>)) : p <= load.n}
    ELSE {}

\* what the per-page loop of Extract keeps for one page: <<kept, list>>
ExtractPage(ns, outcome) ==
    IF outcome.err
    THEN IF ns = "date" THEN <<TRUE, <<>>>> ELSE <<FALSE, <<>>>>
    ELSE IF outcome.has /\ outcome.list # <<>>
         THEN <<TRUE, outcome.list>>
         ELSE <<FALSE, <<>>>>

extract_identifiers_in_file(ns, state, load, resp) ==
    LET idx == state[IndexField(ns, 2)] IN
    IF ~InRange(state, ns, 2)
    THEN (IndexField(ns, 2) :> idx) @@ (CurrentField(ns, 2) :> None)
    ELSE LET current_file == CurrentFile(state, ns, 2)
             pages_with_fields == Get(state[RegionsField(ns)], current_file, <<>>)
             skip == (IndexField(ns, 2) :> idx + 1) @@ (CurrentField(ns, 2) :> current_file)
         IN IF pages_with_fields = <<>> THEN skip
            ELSE IF ~load.ok THEN load_failed(ns, 2, idx, current_file)
            ELSE LET called == ExtractCalls(ns, state, load)
                     kept == {p \in called : ExtractPage(ns, resp[p])[1]}
                     extracted == [p \in kept |-> ExtractPage(ns, resp[p])[2]]
                     identifiers == state[IdentifiersField(ns)]
                 IN skip @@ (IdentifiersField(ns) :>
                        IF kept # {}
                        THEN Put(identifiers, current_file, extracted)
                        ELSE identifiers)

\* the <<page, list index>> pairs Verify sends to the vision capability
VerifyCalls(ns, state, load) ==
    IF InRange(state, ns, 3) /\ load.ok
    THEN LET extracted == Get(state[IdentifiersField(ns)], CurrentFile(state, ns, 3), <<>>)
         IN {<<p, i>> \in (DOMAIN extracted) \X (1..MaxIds + 1) :
                /\ p <= load.n
                /\ i <= Len(extracted[p])
                /\ extracted[p][i].identifier # ""}
    ELSE {}

ErrorType(ns) == <<ns, "missing">>

ErrorItem(ns, file, page, missing, total) ==
    [error_category |-> "normative",
     error_type |-> ErrorType(ns),
     files |-> <<file>>,
     pages |-> (file :> <<page>>),
     metadata |-> [missing |-> missing, total_identifiers_on_page |-> total]]

\* variant: an identifier whose verification raised is passed over
PageMissingNoError(identifier_list, page, resp) ==
    LET idxs == SelectSeq([i \in 1..Len(identifier_list) |-> i],
                          LAMBDA i : /\ identifier_list[i].identifier # ""
                                     /\ resp[<<page, i>>] = "negative")
    IN [j \in 1..Len(idxs) |-> identifier_list[idxs[j]]]

\* the identifiers of one page that Verify collects as negative
PageMissing(identifier_list, page, resp) ==
    LET idxs == SelectSeq([i \in 1..Len(identifier_list) |-> i],
                          LAMBDA i : /\ identifier_list[i].identifier # ""
                                     /\ resp[<<page, i>>] \in {"negative", "error"})
    IN [j \in 1..Len(idxs) |-> identifier_list[idxs[j]]]

RECURSIVE PageErrors(_, _, _, _, _)
PageErrors(ns, file, extracted, pages, resp) ==
    IF pages = <<>> THEN <<>>
    ELSE LET page == Head(pages)
             missing == PageMissing(extracted[page], page, resp)
         IN (IF missing # <<>>
             THEN <<ErrorItem(ns, file, page, missing, Len(extracted[page]))>>
             ELSE <<>>)
            \o PageErrors(ns, file, extracted, Tail(pages), resp)

verify_content_in_file(ns, state, load, resp) ==
    LET idx == state[IndexField(ns, 3)] IN
    IF ~InRange(state, ns, 3)
    THEN (IndexField(ns, 3) :> idx) @@ (CurrentField(ns, 3) :> None)
    ELSE LET current_file == CurrentFile(state, ns, 3)
             extracted == Get(state[IdentifiersField(ns)], current_file, <<>>)
             skip == (IndexField(ns, 3) :> idx + 1) @@ (CurrentField(ns, 3) :> current_file)
         IN IF DOMAIN extracted = {} THEN skip
            ELSE IF ~load.ok THEN load_failed(ns, 3, idx, current_file)
            ELSE LET pages == SelectSeq(Ascending(DOMAIN extracted), LAMBDA p : p <= load.n)
                 IN skip @@ (ERRORS :> PageErrors(ns, current_file, extracted, pages, resp))

\* variant: the loop stops one file early
has_more_files_early(ns, state) ==
    IF state[IndexField(ns, 3)] + 1 < Len(state[FILES]) THEN "continue" ELSE "end"

\* variant: Detect hands over to Verify
edge_skips(node) == "verify"

\* the unconditional edges of the streaming graph
edge(node) == IF node = "detect" THEN "extract" ELSE "verify"

has_more_files(ns, state) ==
    IF state[IndexField(ns, 3)] < Len(state[FILES]) THEN "continue" ELSE "end"

collect_files(ns, state) ==
    (FILES :> state[FILES])
    @@ [f \in {IndexField(ns, k) : k \in 1..3} |-> 0]
    @@ [f \in {CurrentField(ns, k) : k \in 1..3} |-> None]
    @@ (RegionsField(ns) :> <<>>)
    @@ (IdentifiersField(ns) :> <<>>)
    @@ (ERRORS :> <<>>)

\* ------------------------------------------------------- normative graph
VARIABLES
    parent,     \* the shared record of the normative graph
    writes,     \* the update each collect node returned, until the step's merge
    sub,        \* the record of each namespace's streaming sub-graph
    pc,         \* where each namespace's branch stands
    pagesOf,    \* the documents on disk: file -> number of pages
    calls,      \* each namespace's last stage node and its run_vision calls: <<stage, call -> response>>
    log,        \* the stage executions of each namespace: <<stage, file index>>
    batch,      \* the record of the batch-style run of the same three stages
    bpc,        \* where the batch-style run stands
    memo,       \* the capability responses given so far, by call
    comb,       \* one field under concurrent proposals: its combinator at work
    cons,       \* the consistency pipeline: its record and where it stands
    root        \* the root graph: where it stands and its error list

graphVars == <<parent, writes, sub, pc, pagesOf, calls, log>>

eqVars == <<batch, bpc, memo>>

vars == <<parent, writes, sub, pc, pagesOf, calls, log, batch, bpc, memo, comb, cons, root>>

CombIdle == [kind |-> "idle", old |-> 0, props |-> <<>>, order |-> <<>>, acc |-> 0, again |-> FALSE]

ConsIdle == [pc |-> "idle"]

RootIdle == [pc |-> "idle"]

\* the call -> response map of the namespace's last stage node
Responses(ns) == IF calls[ns] = <<>> THEN <<>> ELSE calls[ns][2]

FileList(n) == [i \in 1..n |-> FilePool[i]]

Active == {ns \in Namespaces : pc[ns] # "idle"}

\* the normative graph is invoked with the file list found by the root graph
InvokeNormative(branches, maxFiles, maxPages) ==
    \E n \in 0..maxFiles :
        /\ parent = GraphInput((FILES :> FileList(n)) @@ (ERRORS :> <<>>))
        /\ pagesOf \in [Range(FileList(n)) -> 1..maxPages]
        /\ writes = [ns \in Namespaces |-> <<>>]
        /\ sub = [ns \in Namespaces |-> ChannelDefaults]
        /\ pc = [ns \in Namespaces |-> IF ns \in branches THEN "collect" ELSE "idle"]
        /\ calls = [ns \in Namespaces |-> <<>>]
        /\ log = [ns \in Namespaces |-> <<>>]
        /\ batch = ChannelDefaults
        /\ bpc = "idle"
        /\ memo = <<>>
        /\ comb = CombIdle

\* the normative graph run on its own
InitRun(branches, maxFiles, maxPages) ==
    /\ InvokeNormative(branches, maxFiles, maxPages)
    /\ cons = ConsIdle
    /\ root = RootIdle

\* every order in which the writes of one step's parallel nodes can be merged
Orders(S) == {o \in [1..Cardinality(S) -> S] : \A i, j \in DOMAIN o : o[i] = o[j] => i = j}

RECURSIVE MergeWrites(_, _, _)
MergeWrites(state, updates, order) ==
    IF order = <<>> THEN state
    ELSE MergeWrites(ApplyUpdate(state, updates[Head(order)]), updates, Tail(order))

\* collect_date_files / collect_seal_files / collect_signature_files
Collect(ns) ==
    /\ pc[ns] = "collect"
    /\ writes' = [writes EXCEPT ![ns] = collect_files(ns, parent)]
    /\ pc' = [pc EXCEPT ![ns] = "collected"]
    /\ UNCHANGED <<parent, sub, pagesOf, calls, log>>
    /\ UNCHANGED <<eqVars, comb, cons, root>>

\* end of the first step: the collect writes are merged, then every
\* *_checks sub-graph is invoked on the merged record
StartChecks ==
    /\ Active # {}
    /\ \A ns \in Active : pc[ns] = "collected"
    /\ \E order \in Orders(Active) :
          LET merged == MergeWrites(parent, writes, order) IN
          /\ parent' = merged
          /\ sub' = [ns \in Namespaces |-> IF ns \in Active THEN GraphInput(merged) ELSE sub[ns]]
    /\ writes' = [ns \in Namespaces |-> <<>>]
    /\ pc' = [ns \in Namespaces |-> IF ns \in Active THEN "detect" ELSE pc[ns]]
    /\ UNCHANGED <<pagesOf, calls, log>>
    /\ UNCHANGED <<eqVars, comb, cons, root>>

Pages(state, ns, k) ==
    IF InRange(state, ns, k) THEN pagesOf[CurrentFile(state, ns, k)] ELSE 0

Detect(ns) ==
    /\ pc[ns] = "detect"
    /\ \E load \in LoadOutcomes(Pages(sub[ns], ns, 1)) :
       \E resp \in [DetectCalls(ns, sub[ns], load) -> DetectOutcomes] :
          /\ sub' = [sub EXCEPT ![ns] =
                        ApplyUpdate(@, detect_regions_in_file(ns, @, load, resp))]
          /\ calls' = [calls EXCEPT ![ns] = <<"detect", resp>>]
    /\ pc' = [pc EXCEPT ![ns] = edge("detect")]
    /\ log' = [log EXCEPT ![ns] = Append(@, <<"detect", sub[ns][IndexField(ns, 1)]>>)]
    /\ UNCHANGED <<parent, writes, pagesOf>>
    /\ UNCHANGED <<eqVars, comb, cons, root>>

Extract(ns) ==
    /\ pc[ns] = "extract"
    /\ \E load \in LoadOutcomes(Pages(sub[ns], ns, 2)) :
       \E resp \in [ExtractCalls(ns, sub[ns], load) -> ExtractOutcomes] :
          /\ sub' = [sub EXCEPT ![ns] =
                        ApplyUpdate(@, extract_identifiers_in_file(ns, @, load, resp))]
          /\ calls' = [calls EXCEPT ![ns] = <<"extract", resp>>]
    /\ pc' = [pc EXCEPT ![ns] = edge("extract")]
    /\ log' = [log EXCEPT ![ns] = Append(@, <<"extract", sub[ns][IndexField(ns, 2)]>>)]
    /\ UNCHANGED <<parent, writes, pagesOf>>
    /\ UNCHANGED <<eqVars, comb, cons, root>>

\* Verify, then the conditional edge has_more_files on the merged record
Verify(ns) ==
    /\ pc[ns] = "verify"
    /\ \E load \in LoadOutcomes(Pages(sub[ns], ns, 3)) :
       \E resp \in [VerifyCalls(ns, sub[ns], load) -> VerifyOutcomes] :
          LET next == ApplyUpdate(sub[ns], verify_content_in_file(ns, sub[ns], load, resp)) IN
          /\ sub' = [sub EXCEPT ![ns] = next]
          /\ calls' = [calls EXCEPT ![ns] = <<"verify", resp>>]
          /\ pc' = [pc EXCEPT ![ns] =
                        IF has_more_files(ns, next) = "continue" THEN "detect" ELSE "end"]
    /\ log' = [log EXCEPT ![ns] = Append(@, <<"verify", sub[ns][IndexField(ns, 3)]>>)]
    /\ UNCHANGED <<parent, writes, pagesOf>>
    /\ UNCHANGED <<eqVars, comb, cons, root>>

\* end of the second step: every sub-graph returns its record, and the
\* records are merged into the shared record through the combinators
FinishChecks ==
    /\ Active # {}
    /\ \A ns \in Active : pc[ns] = "end"
    /\ \E order \in Orders(Active) : parent' = MergeWrites(parent, sub, order)
    /\ pc' = [ns \in Namespaces |-> IF ns \in Active THEN "merged" ELSE pc[ns]]
    /\ UNCHANGED <<writes, sub, pagesOf, calls, log>>
    /\ UNCHANGED <<eqVars, comb, cons, root>>

Next ==
    \/ \E ns \in Namespaces : Collect(ns)
    \/ StartChecks
    \/ \E ns \in Namespaces : Detect(ns)
    \/ \E ns \in Namespaces : Extract(ns)
    \/ \E ns \in Namespaces : Verify(ns)
    \/ FinishChecks

\* one namespace's branch of the normative graph, with full-size documents
Init == \E ns \in Namespaces : InitRun({ns}, MaxFiles, MaxPages)

Spec == Init /\ [][Next]_vars

\* the three branches of the normative graph in parallel
InitNorm == InitRun(Namespaces, NormFiles, NormPages)

SpecNorm == InitNorm /\ [][Next]_vars

\* one namespace's streaming loop, scheduled as long as it has a node to run
InitLoop == \E ns \in Namespaces : InitRun({ns}, MaxFiles, LoopPages)

FairSpec == InitLoop /\ [][Next]_vars /\ WF_vars(Next)

\* ------------------------------------------- streaming against batch style
StageName(k) == <<"detect", "extract", "verify">>[k]

StageNode(k, ns, state, load, resp) ==
    IF k = 1 THEN detect_regions_in_file(ns, state, load, resp)
    ELSE IF k = 2 THEN extract_identifiers_in_file(ns, state, load, resp)
    ELSE verify_content_in_file(ns, state, load, resp)

StageCalls(k, ns, state, load) ==
    IF k = 1 THEN DetectCalls(ns, state, load)
    ELSE IF k = 2 THEN ExtractCalls(ns, state, load)
    ELSE VerifyCalls(ns, state, load)

StageOutcomes(k) ==
    IF k = 1 THEN DetectOutcomes ELSE IF k = 2 THEN ExtractOutcomes ELSE VerifyOutcomes

\* whether the stage reaches its load_images call
LoadCalled(k, ns, state) ==
    /\ InRange(state, ns, k)
    /\ k = 2 => Get(state[RegionsField(ns)], CurrentFile(state, ns, k), <<>>) # <<>>
    /\ k = 3 => DOMAIN Get(state[IdentifiersField(ns)], CurrentFile(state, ns, k), <<>>) # {}

\* a capability call is identified by its arguments: the stage's prompt, the
\* file, the page and (Verify) the identifier
LoadKey(k, file) == <<"load", file, k, 0>>

VisionKey(k, file, c) ==
    IF k = 3 THEN <<StageName(k), file, c[1], c[2]>> ELSE <<StageName(k), file, c, 0>>

\* the responses of this execution repeat the responses already given to the same calls
Deterministic(k, ns, state, load, resp) ==
    IF ~LoadCalled(k, ns, state) THEN ~load.ok
    ELSE LET file == CurrentFile(state, ns, k) IN
         /\ LoadKey(k, file) \in DOMAIN memo => memo[LoadKey(k, file)] = load
         /\ \A c \in StageCalls(k, ns, state, load) :
               VisionKey(k, file, c) \in DOMAIN memo => memo[VisionKey(k, file, c)] = resp[c]

Remember(k, ns, state, load, resp) ==
    IF ~LoadCalled(k, ns, state) THEN memo
    ELSE LET file == CurrentFile(state, ns, k)
             keys == {LoadKey(k, file)}
                     \cup {VisionKey(k, file, c) : c \in StageCalls(k, ns, state, load)}
         IN [key \in (DOMAIN memo) \cup keys |->
                IF key \in DOMAIN memo THEN memo[key]
                ELSE IF key = LoadKey(k, file) THEN load
                ELSE resp[CHOOSE c \in StageCalls(k, ns, state, load) :
                                VisionKey(k, file, c) = key]]

\* both styles are invoked on the record that collect_*_files initialised
InitEq ==
    \E ns \in Namespaces, n \in 0..MaxFiles :
        LET input == GraphInput((FILES :> FileList(n)) @@ (ERRORS :> <<>>))
            start == GraphInput(ApplyUpdate(input, collect_files(ns, input)))
        IN /\ parent = input
           /\ pagesOf \in [Range(FileList(n)) -> 1..EqPages]
           /\ writes = [m \in Namespaces |-> <<>>]
           /\ sub = [m \in Namespaces |-> IF m = ns THEN start ELSE ChannelDefaults]
           /\ pc = [m \in Namespaces |-> IF m = ns THEN "detect" ELSE "idle"]
           /\ calls = [m \in Namespaces |-> <<>>]
           /\ log = [m \in Namespaces |-> <<>>]
           /\ batch = start
           /\ bpc = "waiting"
           /\ memo = <<>>
           /\ comb = CombIdle
           /\ cons = ConsIdle
           /\ root = RootIdle

\* one node of the streaming graph: Detect -> Extract -> Verify -> has_more_files
StreamStage(ns, k) ==
    /\ pc[ns] = StageName(k)
    /\ \E load \in LoadOutcomes(Pages(sub[ns], ns, k)) :
       \E resp \in [StageCalls(k, ns, sub[ns], load) -> StageOutcomes(k)] :
          LET next == ApplyUpdate(sub[ns], StageNode(k, ns, sub[ns], load, resp)) IN
          /\ Deterministic(k, ns, sub[ns], load, resp)
          /\ memo' = Remember(k, ns, sub[ns], load, resp)
          /\ sub' = [sub EXCEPT ![ns] = next]
          /\ calls' = [calls EXCEPT ![ns] = <<StageName(k), resp>>]
          /\ pc' = [pc EXCEPT ![ns] =
                        IF k < 3 THEN edge(StageName(k))
                        ELSE IF has_more_files(ns, next) = "continue" THEN "detect"
                        ELSE "end"]
          /\ bpc' = IF pc'[ns] = "end" THEN "detect" ELSE bpc
    /\ log' = [log EXCEPT ![ns] = Append(@, <<StageName(k), sub[ns][IndexField(ns, k)]>>)]
    /\ UNCHANGED <<parent, writes, pagesOf, batch, comb, cons, root>>

\* one node of the batch graph: a stage is repeated until its own index
\* reaches the file count, then the next stage starts
BatchStage(ns, k) ==
    /\ pc[ns] = "end"
    /\ bpc = StageName(k)
    /\ \E load \in LoadOutcomes(Pages(batch, ns, k)) :
       \E resp \in [StageCalls(k, ns, batch, load) -> StageOutcomes(k)] :
          LET next == ApplyUpdate(batch, StageNode(k, ns, batch, load, resp)) IN
          /\ Deterministic(k, ns, batch, load, resp)
          /\ memo' = Remember(k, ns, batch, load, resp)
          /\ batch' = next
          /\ bpc' = IF next[IndexField(ns, k)] < Len(next[FILES]) THEN StageName(k)
                    ELSE IF k < 3 THEN StageName(k + 1)
                    ELSE "end"
    /\ UNCHANGED <<parent, writes, sub, pc, pagesOf, calls, log, comb, cons, root>>

NextEq ==
    \/ \E ns \in Namespaces, k \in 1..3 : StreamStage(ns, k)
    \/ \E ns \in Namespaces, k \in 1..3 : BatchStage(ns, k)

SpecEq == InitEq /\ [][NextEq]_vars

\* --------------------------------------- one field, concurrent proposals
Combinators ==
    {"take_first", "max_reducer", "replace_optional", "replace",
     "merge_ocr_results", "merge_extraction_results"}

Combine(kind, x, y) ==
    IF kind = "take_first" THEN take_first(x, y)
    ELSE IF kind = "max_reducer" THEN max_reducer(x, y)
    ELSE IF kind = "replace_optional" THEN replace_optional(x, y)
    ELSE IF kind = "replace" THEN replace(x, y)
    ELSE IF kind = "merge_ocr_results" THEN merge_ocr_results(x, y)
    ELSE merge_extraction_results(x, y)

\* values a field of each combinator holds or is proposed
MergeValues ==
    {<<>>,
     ("a.pdf" :> ("contract_date" :> "v1")),
     ("a.pdf" :> ("contract_date" :> "v2")),
     ("a.pdf" :> ("contract_items" :> "v1")),
     ("b.pdf" :> ("contract_date" :> "v1"))}

CombValues(kind) ==
    IF kind = "take_first" THEN {<<>>, <<"a.pdf">>, <<"b.pdf">>}
    ELSE IF kind = "max_reducer" THEN 0..MaxValue
    ELSE IF kind = "replace_optional" THEN {None, "a.pdf", "b.pdf"}
    ELSE IF kind = "replace" THEN {<<>>, ("a.pdf" :> <<1>>), ("b.pdf" :> <<1>>)}
    ELSE MergeValues

InitComb ==
    /\ \E kind \in Combinators, n \in 1..MaxProposals :
       \E old \in CombValues(kind), props \in [1..n -> CombValues(kind)] :
          comb = [kind |-> kind, old |-> old, props |-> props, order |-> <<>>,
                  acc |-> old, again |-> FALSE]
    /\ parent = ChannelDefaults
    /\ pagesOf = <<>>
    /\ writes = [ns \in Namespaces |-> <<>>]
    /\ sub = [ns \in Namespaces |-> ChannelDefaults]
    /\ pc = [ns \in Namespaces |-> "idle"]
    /\ calls = [ns \in Namespaces |-> <<>>]
    /\ log = [ns \in Namespaces |-> <<>>]
    /\ batch = ChannelDefaults
    /\ bpc = "idle"
    /\ memo = <<>>
    /\ cons = ConsIdle
    /\ root = RootIdle

\* the write of one more branch is folded into the field
Propose(i) ==
    /\ i \in DOMAIN comb.props
    /\ i \notin Range(comb.order)
    /\ comb' = [comb EXCEPT !.acc = Combine(comb.kind, @, comb.props[i]),
                            !.order = Append(@, i)]
    /\ UNCHANGED <<graphVars, eqVars, cons, root>>

\* a write that was folded already is delivered a second time
Redeliver(i) ==
    /\ i \in Range(comb.order)
    /\ ~comb.again
    /\ comb' = [comb EXCEPT !.acc = Combine(comb.kind, @, comb.props[i]),
                            !.again = TRUE]
    /\ UNCHANGED <<graphVars, eqVars, cons, root>>

NextComb ==
    \/ \E i \in 1..MaxProposals : Propose(i)
    \/ \E i \in 1..MaxProposals : Redeliver(i)

SpecComb == InitComb /\ [][NextComb]_vars

\* ------------------------------------------------- consistency pipeline
\* the document categories of config/extraction_config.py (purchase contract,
\* delivery note, purchase receipt); a document outside them is unclassified
DocTypes == {"purchase_contract", "delivery_note", "purchase_receipt"}

Unclassified == "unclassified"

TYPE == "__type__"

\* a quantity string of an item row: a decimal number (held in thousandths),
\* a text float() rejects, or a blank
Quantity(milli) == <<"number", milli>>

NotANumber == <<"text", 0>>

Blank == <<"blank", 0>>

Item(name, spec, quantity) == [name |-> name, spec |-> spec, quantity |-> quantity]

\* a date string: the year, month and day one of the four formats matches, or
\* a text none of them matches
DateText(y, m, d) == <<y, m, d>>

NoDate == <<>>

\* one page result of a model call: the item rows and the date strings of its
\* parsed entries
PageResult(items, dates) == [items |-> items, dates |-> dates]

\* the fields of ConsistencyState the pipeline reads and writes
ConsistencyState ==
    {"ioc_groups", "errors", "ocr_current_ioc_group_index", "ocr_current_ioc_group_key",
     "ocr_current_file_index", "ocr_current_file", "ocr_results", "ocr_metadata",
     "ocr_current_group_metadata", "ocr_current_group_files",
     "ocr_current_file_path", "ocr_current_file_type", "ocr_result_page_folder",
     "ocr_result_base_folder", "ocr_per_page_content", "ocr_page_files", "ocr_success",
     "ocr_classifications", "extraction_current_ioc_group_key",
     "extraction_filtered_documents", "extraction_results"}

\* the combinator annotated on each field of ConsistencyState; a field without
\* one keeps the last value written
ConsReduce(field, x, y) ==
    IF field = "errors" THEN add(x, y)
    ELSE IF field = "ocr_results" THEN merge_ocr_results(x, y)
    ELSE IF field = "ocr_current_group_metadata" THEN merge_metadata_list(x, y)
    ELSE IF field = "extraction_results" THEN merge_extraction_results(x, y)
    ELSE y

\* a node's update written to the record; keys outside the schema are dropped
ConsApply(state, update) ==
    [f \in DOMAIN state |->
        IF f \in DOMAIN update THEN ConsReduce(f, state[f], update[f]) ELSE state[f]]

ConsDefaults ==
    [f \in ConsistencyState |->
        IF f \in {"ocr_current_ioc_group_index", "ocr_current_file_index"} THEN 0
        ELSE IF f \in {"ocr_current_ioc_group_key", "ocr_current_file",
                       "ocr_current_file_path", "ocr_current_file_type",
                       "ocr_result_page_folder", "ocr_result_base_folder",
                       "extraction_current_ioc_group_key"} THEN None
        ELSE IF f = "ocr_success" THEN FALSE
        ELSE <<>>]

\* a compiled graph invoked on a record: the record is written through the combinators
ConsInput(input) == ConsApply(ConsDefaults, input)

RECURSIVE ConsMerge(_, _, _)
ConsMerge(state, updates, order) ==
    IF order = <<>> THEN state
    ELSE ConsMerge(ConsApply(state, updates[Head(order)]), updates, Tail(order))

\* ------------------------------------------------- extraction sub-graph
FilterNodes ==
    {"filter_purchase_contracts", "filter_delivery_notes", "filter_purchase_receipts"}

Branches ==
    {"extract_purchase_contract_date", "extract_purchase_contract_items",
     "extract_delivery_note_date", "extract_delivery_note_items",
     "extract_purchase_receipt_data"}

BranchType(b) ==
    IF b \in {"extract_purchase_contract_date", "extract_purchase_contract_items"}
    THEN "purchase_contract"
    ELSE IF b \in {"extract_delivery_note_date", "extract_delivery_note_items"}
    THEN "delivery_note"
    ELSE "purchase_receipt"

\* variant: the two branches of a category store their results under one key
PromptKeyOfType(b) == BranchType(b) \o ".txt"

\* the key a branch stores its result under in the file's record
PromptKey(b) ==
    IF b = "extract_purchase_receipt_data"
    THEN "extract_purchase_receipt_date_and_items.txt"
    ELSE b \o ".txt"

\* a metadata item of the group: the original file and its category
Metadata(file, category) == [file |-> file, category |-> category]

\* the documents of one category among the filtered documents
Documents(state, type) == Get(state["extraction_filtered_documents"], type, <<>>)

\* what extract_*_from_documents can return for these documents: nothing when
\* the prompt or the model cannot be loaded, else a result for each document
\* that had at least one page answered
ExtractionOutcomes(documents, payloads) ==
    UNION {[S -> payloads] : S \in SUBSET {documents[i].file : i \in DOMAIN documents}}

\* filter_purchase_contracts / filter_delivery_notes / filter_purchase_receipts
filter_node(state) == <<>>

\* extract_purchase_contract_date ... extract_purchase_receipt_data
extract_node(b, state, results) ==
    IF Len(Documents(state, BranchType(b))) = 0 THEN <<>>
    ELSE "extraction_results" :>
            [f \in DOMAIN results |->
                (TYPE :> BranchType(b)) @@ (PromptKey(b) :> results[f])]

\* filter_documents_by_type: the group's metadata grouped by category
filter_documents_by_type(state) ==
    LET key == state["ocr_current_ioc_group_key"]
        metadata == state["ocr_current_group_metadata"]
        OfType(type) ==
            LET Test(m) == IF type = Unclassified THEN m.category \notin DocTypes
                           ELSE m.category = type
            IN SelectSeq(metadata, Test)
    IN IF key = None \/ Len(metadata) = 0
       THEN ("extraction_filtered_documents" :> <<>>)
            @@ ("extraction_current_ioc_group_key" :> None)
       ELSE ("extraction_filtered_documents" :>
                [type \in DocTypes \cup {Unclassified} |-> OfType(type)])
            @@ ("extraction_current_ioc_group_key" :> key)

\* results the model gives in the runs of the graph
SomeDates == {<<PageResult(<<>>, <<DateText(2023, 4, 1)>>)>>}

SomeItems == {<<PageResult(<<Item("bolt", "M8", Quantity(1000))>>, <<>>)>>}

SomeReceipts ==
    {<<PageResult(<<Item("bolt", "M8", Quantity(1020))>>, <<DateText(2023, 4, 2)>>)>>}

GraphPayloads(b) ==
    IF b \in {"extract_purchase_contract_date", "extract_delivery_note_date"} THEN SomeDates
    ELSE IF b = "extract_purchase_receipt_data" THEN SomeReceipts
    ELSE SomeItems

\* first step of the sub-graph: the three filter nodes
FilterStep(n) ==
    /\ cons.pc = "extract_structured_data"
    /\ n \in FilterNodes \ cons.ran
    /\ cons' = [cons EXCEPT !.ran = @ \cup {n},
                            !.xwrites = Put(@, n, filter_node(cons.sub))]
    /\ UNCHANGED <<graphVars, eqVars, comb, root>>

\* second step: the five extraction branches, each on the record the step began with
ExtractStep(b) ==
    /\ cons.pc = "extract_structured_data"
    /\ FilterNodes \subseteq cons.ran
    /\ b \in Branches \ cons.ran
    /\ \E results \in ExtractionOutcomes(Documents(cons.sub, BranchType(b)), GraphPayloads(b)) :
          cons' = [cons EXCEPT !.ran = @ \cup {b},
                               !.xwrites = Put(@, b, extract_node(b, cons.sub, results))]
    /\ UNCHANGED <<graphVars, eqVars, comb, root>>

\* end of the second step: the branches' writes are merged in some order, and
\* the sub-graph's record is written to the record of the calling graph
FinishExtraction ==
    /\ cons.pc = "extract_structured_data"
    /\ Branches \subseteq cons.ran
    /\ \E order \in Orders(Branches) :
          LET final == ConsMerge(cons.sub, cons.xwrites, order) IN
          cons' = [cons EXCEPT !.state = ConsApply(@, final),
                               !.sub = final,
                               !.pc = "check_consistencies"]
    /\ UNCHANGED <<graphVars, eqVars, comb, root>>

\* the sub-graph is entered after filter_documents_by_type ran on a group's
\* classified metadata
InitExtract ==
    /\ \E n \in 0..MaxDocs :
       \E category \in [1..n -> DocTypes \cup {Unclassified}] :
          LET metadata == [i \in 1..n |-> Metadata(FilePool[i], category[i])]
              classified == ConsApply(ConsDefaults,
                                ("ocr_current_ioc_group_key" :> "group1")
                                @@ ("ocr_current_group_metadata" :> metadata))
              filtered == ConsApply(classified, filter_documents_by_type(classified))
          IN cons = [pc |-> "extract_structured_data", state |-> filtered,
                     sub |-> ConsInput(filtered), ran |-> {}, xwrites |-> <<>>,
                     log |-> <<>>, made |-> <<>>]
    /\ parent = ChannelDefaults
    /\ pagesOf = <<>>
    /\ writes = [ns \in Namespaces |-> <<>>]
    /\ sub = [ns \in Namespaces |-> ChannelDefaults]
    /\ pc = [ns \in Namespaces |-> "idle"]
    /\ calls = [ns \in Namespaces |-> <<>>]
    /\ log = [ns \in Namespaces |-> <<>>]
    /\ batch = ChannelDefaults
    /\ bpc = "idle"
    /\ memo = <<>>
    /\ comb = CombIdle
    /\ root = RootIdle

NextExtract ==
    \/ \E n \in FilterNodes : FilterStep(n)
    \/ \E b \in Branches : ExtractStep(b)
    \/ FinishExtraction

SpecExtract == InitExtract /\ [][NextExtract]_vars

\* ------------------------------------------------- consistency checks
\* tolerance = 0.01, in thousandths
Tolerance == 10

Abs(x) == IF x < 0 THEN 0 - x ELSE x

\* the page results stored under one key in the records of one category
RECURSIVE ResultsOfType(_, _, _, _)
ResultsOfType(results, files, type, key) ==
    IF files = {} THEN <<>>
    ELSE LET f == CHOOSE x \in files : TRUE
             rest == ResultsOfType(results, files \ {f}, type, key)
         IN IF Get(results[f], TYPE, None) = type
            THEN Get(results[f], key, <<>>) \o rest
            ELSE rest

\* the item rows of all page results, in order
RECURSIVE Rows(_)
Rows(items_data) ==
    IF items_data = <<>> THEN <<>> ELSE Head(items_data).items \o Rows(Tail(items_data))

\* variant: a row counts as soon as it has a name
HasName(item) == item.name # ""

\* a row counts when it has a name and a quantity that parses as a number
Counted(item) == item.name # "" /\ item.quantity[1] = "number"

MaterialKey(item) == <<item.name, item.spec>>

\* variant: the quantity of a material's last row stands for the material
RECURSIVE LastQuantity(_, _)
LastQuantity(rows, key) ==
    IF rows = <<>> THEN 0
    ELSE LET item == rows[Len(rows)] IN
         IF Counted(item) /\ MaterialKey(item) = key THEN item.quantity[2]
         ELSE LastQuantity(SubSeq(rows, 1, Len(rows) - 1), key)

RECURSIVE SumQuantity(_, _)
SumQuantity(rows, key) ==
    IF rows = <<>> THEN 0
    ELSE (IF Counted(Head(rows)) /\ MaterialKey(Head(rows)) = key
          THEN Head(rows).quantity[2] ELSE 0)
         + SumQuantity(Tail(rows), key)

aggregate_items_by_material(items_data) ==
    LET rows == Rows(items_data)
        keys == {MaterialKey(rows[i]) : i \in {j \in DOMAIN rows : Counted(rows[j])}}
    IN [key \in keys |-> SumQuantity(rows, key)]

aggregate_receipt_items_by_material(receipt_data) ==
    aggregate_items_by_material(receipt_data)

common_materials(c, d, r) == (DOMAIN c) \cap (DOMAIN d) \cap (DOMAIN r)

QuantitiesAgree(c, d, r) ==
    /\ Abs(c - d) < Tolerance
    /\ Abs(c - r) < Tolerance
    /\ Abs(d - r) < Tolerance

QuantityError(key, c, d, r) ==
    [error_category |-> "consistency", error_type |-> "quantity_mismatch",
     metadata |-> [material_name |-> key[1], material_spec |-> key[2],
                   contract_quantity |-> c, delivery_quantity |-> d,
                   receipt_quantity |-> r, check_type |-> "quantity_consistency"]]

\* check_quantity_consistency: the Error Items it returns (it appends them in
\* the iteration order of a set)
check_quantity_consistency(results) ==
    LET c == aggregate_items_by_material(
                 ResultsOfType(results, DOMAIN results, "purchase_contract",
                               "extract_purchase_contract_items.txt"))
        d == aggregate_items_by_material(
                 ResultsOfType(results, DOMAIN results, "delivery_note",
                               "extract_delivery_note_items.txt"))
        r == aggregate_receipt_items_by_material(
                 ResultsOfType(results, DOMAIN results, "purchase_receipt",
                               "extract_purchase_receipt_date_and_items.txt"))
    IN {QuantityError(key, c[key], d[key], r[key]) :
           key \in {k \in common_materials(c, d, r) : ~QuantitiesAgree(c[k], d[k], r[k])}}

check_quantity_consistency_node(state, new_errors) ==
    IF DOMAIN state["extraction_results"] = {} THEN <<>>
    ELSE "errors" :> new_errors

\* the Error Items a node produced: the ones its update holds
Produced(update) == IF "errors" \in DOMAIN update THEN update["errors"] ELSE <<>>

\* the checking sub-graph: START -> check_quantity_consistency -> END; made
\* records the Error Items the steps of the pipeline produced
CheckQuantity ==
    /\ cons.pc = "check_consistencies"
    /\ \E new_errors \in Orders(check_quantity_consistency(cons.state["extraction_results"])) :
          LET entered == ConsInput(cons.state)
              update == check_quantity_consistency_node(entered, new_errors)
              final == ConsApply(entered, update)
          IN cons' = [cons EXCEPT !.state = ConsApply(@, final),
                                  !.sub = final,
                                  !.xwrites = Put(@, "check_quantity_consistency", update),
                                  !.made = @ \o Produced(update),
                                  !.pc = "update_metadata_with_extraction"]
    /\ UNCHANGED <<graphVars, eqVars, comb, root>>

\* item rows the model can return for a contract, and for a delivery note or a receipt
ContractRows ==
    {Item(m[1], m[2], Quantity(q)) :
        m \in {<<"bolt", "M8">>, <<"nut", "">>}, q \in {1000, 1005, 1010, 1020}}
    \cup {Item("", "M8", Quantity(1000)), Item("bolt", "M8", NotANumber),
          Item("bolt", "M8", Blank)}

OtherRows ==
    {Item(m[1], m[2], Quantity(q)) :
        m \in {<<"bolt", "M8">>, <<"nut", "">>}, q \in {1000, 1010}}
    \cup {Item("nut", "", NotANumber)}

\* the rows on one page each, or all rows on one page
RowPerPage(rows) == [i \in DOMAIN rows |-> PageResult(<<rows[i]>>, <<>>)]

OnePage(rows) == IF rows = <<>> THEN <<>> ELSE <<PageResult(rows, <<>>)>>

RowLists(rows) == UNION {[1..n -> rows] : n \in 0..MaxItems}

\* the checking sub-graph is entered with the extraction results of a
\* contract, a delivery note and a receipt
InitQuantity ==
    /\ \E c \in RowLists(ContractRows), d \in RowLists(OtherRows), r \in RowLists(OtherRows) :
          LET results ==
                  ("c.pdf" :> ((TYPE :> "purchase_contract")
                               @@ ("extract_purchase_contract_items.txt" :> RowPerPage(c))))
                  @@ ("d.pdf" :> ((TYPE :> "delivery_note")
                               @@ ("extract_delivery_note_items.txt" :> OnePage(d))))
                  @@ ("r.pdf" :> ((TYPE :> "purchase_receipt")
                               @@ ("extract_purchase_receipt_date_and_items.txt" :> OnePage(r))))
              state == ConsApply(ConsDefaults,
                           ("ocr_current_ioc_group_key" :> "group1")
                           @@ ("extraction_current_ioc_group_key" :> "group1")
                           @@ ("extraction_results" :> results))
          IN cons = [pc |-> "check_consistencies", state |-> state, sub |-> <<>>,
                     ran |-> {}, xwrites |-> <<>>, log |-> <<>>, made |-> <<>>]
    /\ parent = ChannelDefaults
    /\ pagesOf = <<>>
    /\ writes = [ns \in Namespaces |-> <<>>]
    /\ sub = [ns \in Namespaces |-> ChannelDefaults]
    /\ pc = [ns \in Namespaces |-> "idle"]
    /\ calls = [ns \in Namespaces |-> <<>>]
    /\ log = [ns \in Namespaces |-> <<>>]
    /\ batch = ChannelDefaults
    /\ bpc = "idle"
    /\ memo = <<>>
    /\ comb = CombIdle
    /\ root = RootIdle

SpecQuantity == InitQuantity /\ [][CheckQuantity]_vars

\* datetime(year, month, day) raises ValueError outside the calendar
DaysInMonth(y, m) ==
    IF m \in {4, 6, 9, 11} THEN 30
    ELSE IF m = 2 THEN (IF y % 4 = 0 /\ (y % 100 # 0 \/ y % 400 = 0) THEN 29 ELSE 28)
    ELSE 31

\* a datetime, as a number ordered like the dates
Ordinal(y, m, d) == y * 10000 + m * 100 + d

\* variant: the year, month and day are taken as matched, whatever they are
parse_unchecked(date_str) ==
    IF date_str = NoDate THEN 0 ELSE Ordinal(date_str[1], date_str[2], date_str[3])

\* parse_chinese_date: the datetime of a date string, 0 standing for None
parse_chinese_date(date_str) ==
    IF date_str = NoDate THEN 0
    ELSE IF date_str[2] \in 1..12 /\ date_str[3] \in 1..DaysInMonth(date_str[1], date_str[2])
    THEN Ordinal(date_str[1], date_str[2], date_str[3])
    ELSE 0

\* the date strings of all page results, in order
RECURSIVE DateStrings(_)
DateStrings(data) ==
    IF data = <<>> THEN <<>> ELSE Head(data).dates \o DateStrings(Tail(data))

ParsedDates(data) ==
    {parse_chinese_date(DateStrings(data)[i]) : i \in DOMAIN DateStrings(data)} \ {0}

extract_dates_from_contract(contract_data) == ParsedDates(contract_data)

extract_dates_from_delivery(delivery_data) == ParsedDates(delivery_data)

extract_dates_from_receipt(receipt_data) == ParsedDates(receipt_data)

\* variant: the latest date of a document type stands for the type
Latest(dates) == CHOOSE x \in dates : \A y \in dates : x >= y

\* min(dates)
Earliest(dates) == CHOOSE x \in dates : \A y \in dates : x <= y

DateError(check_type, first, first_date, second, second_date) ==
    [error_category |-> "consistency", error_type |-> "date_order_mismatch",
     metadata |-> (first :> first_date) @@ (second :> second_date)
                  @@ ("check_type" :> check_type)]

\* variant: only neighbouring document types are compared
check_adjacent_dates(results) ==
    LET contract_dates == extract_dates_from_contract(
            ResultsOfType(results, DOMAIN results, "purchase_contract",
                          "extract_purchase_contract_date.txt"))
        delivery_dates == extract_dates_from_delivery(
            ResultsOfType(results, DOMAIN results, "delivery_note",
                          "extract_delivery_note_date.txt"))
        receipt_dates == extract_dates_from_receipt(
            ResultsOfType(results, DOMAIN results, "purchase_receipt",
                          "extract_purchase_receipt_date_and_items.txt"))
    IN IF contract_dates = {} \/ delivery_dates = {} \/ receipt_dates = {} THEN <<>>
       ELSE LET c == Earliest(contract_dates)
                d == Earliest(delivery_dates)
                r == Earliest(receipt_dates)
            IN (IF c > d THEN <<DateError("date_order_contract_delivery",
                                          "earliest_contract_date", c,
                                          "earliest_delivery_date", d)>> ELSE <<>>)
               \o (IF d > r THEN <<DateError("date_order_delivery_receipt",
                                             "earliest_delivery_date", d,
                                             "earliest_receipt_date", r)>> ELSE <<>>)

check_date_consistency(results) ==
    LET contract_dates == extract_dates_from_contract(
            ResultsOfType(results, DOMAIN results, "purchase_contract",
                          "extract_purchase_contract_date.txt"))
        delivery_dates == extract_dates_from_delivery(
            ResultsOfType(results, DOMAIN results, "delivery_note",
                          "extract_delivery_note_date.txt"))
        receipt_dates == extract_dates_from_receipt(
            ResultsOfType(results, DOMAIN results, "purchase_receipt",
                          "extract_purchase_receipt_date_and_items.txt"))
    IN IF contract_dates = {} \/ delivery_dates = {} \/ receipt_dates = {} THEN <<>>
       ELSE LET c == Earliest(contract_dates)
                d == Earliest(delivery_dates)
                r == Earliest(receipt_dates)
            IN (IF c > d THEN <<DateError("date_order_contract_delivery",
                                          "earliest_contract_date", c,
                                          "earliest_delivery_date", d)>> ELSE <<>>)
               \o (IF d > r THEN <<DateError("date_order_delivery_receipt",
                                             "earliest_delivery_date", d,
                                             "earliest_receipt_date", r)>> ELSE <<>>)
               \o (IF c > r THEN <<DateError("date_order_contract_receipt",
                                             "earliest_contract_date", c,
                                             "earliest_receipt_date", r)>> ELSE <<>>)

check_date_consistency_node(state) ==
    IF DOMAIN state["extraction_results"] = {} THEN <<>>
    ELSE "errors" :> check_date_consistency(state["extraction_results"])

\* the date check applied to the record (its node is not wired into the
\* checking sub-graph)
CheckDate ==
    /\ cons.pc = "check_date_consistency"
    /\ LET update == check_date_consistency_node(cons.state) IN
       cons' = [cons EXCEPT !.state = ConsApply(@, update),
                            !.xwrites = Put(@, "check_date_consistency", update),
                            !.pc = "checked"]
    /\ UNCHANGED <<graphVars, eqVars, comb, root>>

\* date strings the model can return
SomeDateStrings ==
    {DateText(2023, 4, 1), DateText(2023, 4, 2), DateText(2023, 4, 3),
     DateText(2023, 2, 30), NoDate}

DatePerPage(dates) == [i \in DOMAIN dates |-> PageResult(<<>>, <<dates[i]>>)]

DateLists == UNION {[1..n -> SomeDateStrings] : n \in 0..MaxDates}

InitDate ==
    /\ \E c \in DateLists, d \in DateLists, r \in DateLists :
          LET results ==
                  ("c.pdf" :> ((TYPE :> "purchase_contract")
                               @@ ("extract_purchase_contract_date.txt" :> DatePerPage(c))))
                  @@ ("d.pdf" :> ((TYPE :> "delivery_note")
                               @@ ("extract_delivery_note_date.txt" :> DatePerPage(d))))
                  @@ ("r.pdf" :> ((TYPE :> "purchase_receipt")
                               @@ ("extract_purchase_receipt_date_and_items.txt" :> DatePerPage(r))))
              state == ConsApply(ConsDefaults,
                           ("ocr_current_ioc_group_key" :> "group1")
                           @@ ("extraction_current_ioc_group_key" :> "group1")
                           @@ ("extraction_results" :> results))
          IN cons = [pc |-> "check_date_consistency", state |-> state, sub |-> <<>>,
                     ran |-> {}, xwrites |-> <<>>, log |-> <<>>, made |-> <<>>]
    /\ parent = ChannelDefaults
    /\ pagesOf = <<>>
    /\ writes = [ns \in Namespaces |-> <<>>]
    /\ sub = [ns \in Namespaces |-> ChannelDefaults]
    /\ pc = [ns \in Namespaces |-> "idle"]
    /\ calls = [ns \in Namespaces |-> <<>>]
    /\ log = [ns \in Namespaces |-> <<>>]
    /\ batch = ChannelDefaults
    /\ bpc = "idle"
    /\ memo = <<>>
    /\ comb = CombIdle
    /\ root = RootIdle

SpecDate == InitDate /\ [][CheckDate]_vars

\* ------------------------------------------------- OCR processing graph
\* an IOC group as discovered: whether its folder still exists, and the
\* supported files under it, sorted
Group(exists, files) == [exists |-> exists, files |-> files]

GroupFile(g, i) == "group" \o ToString(g) \o "/file" \o ToString(i) \o ".pdf"

\* the key of the group at index group_idx
GroupKey(group_idx) == "group" \o ToString(group_idx + 1)

\* prepare_ioc_group_for_ocr: the update for a group without folder or files
prepare_skips(state) ==
    ("ocr_current_ioc_group_index" :> state["ocr_current_ioc_group_index"] + 1)
    @@ ("ocr_current_ioc_group_key" :> None)
    @@ ("ocr_current_file_index" :> 0)

prepare_ioc_group_for_ocr(state) ==
    LET ioc_groups == state["ioc_groups"]
        group_idx == state["ocr_current_ioc_group_index"]
    IN IF group_idx >= Len(ioc_groups)
       THEN ("ocr_current_ioc_group_index" :> group_idx)
            @@ ("ocr_current_ioc_group_key" :> None)
       ELSE IF ~ioc_groups[group_idx + 1].exists \/ ioc_groups[group_idx + 1].files = <<>>
       THEN prepare_skips(state)
       ELSE ("ocr_current_ioc_group_index" :> group_idx)
            @@ ("ocr_current_ioc_group_key" :> GroupKey(group_idx))
            @@ ("ocr_current_file_index" :> 0)
            @@ ("ocr_current_file" :> None)
            @@ ("ocr_current_group_files" :> ioc_groups[group_idx + 1].files)
            @@ ("ocr_current_group_metadata" :> <<>>)

prepare_file_info(state) ==
    LET files == state["ocr_current_group_files"]
        file_idx == state["ocr_current_file_index"]
    IN IF file_idx >= Len(files)
       THEN ("ocr_current_file_path" :> None) @@ ("ocr_current_file_type" :> None)
       ELSE ("ocr_current_file_path" :> files[file_idx + 1])
            @@ ("ocr_current_file_type" :> "pdf")

\* create_result_directory: os.path.join raises TypeError on a group key of None
create_result_directory_raises(state) == state["ocr_current_ioc_group_key"] = None

create_result_directory(state) ==
    LET folder == state["ocr_current_ioc_group_key"] \o "/pdf-"
                  \o ToString(state["ocr_current_file_index"])
    IN ("ocr_result_page_folder" :> folder \o "/pages")
       @@ ("ocr_result_base_folder" :> folder)

\* variant: a failed recognition still hands on the text of one page
recognize_keeps_page(state, pages) ==
    IF state["ocr_current_file_path"] = None \/ pages = 0
    THEN ("ocr_per_page_content" :> <<"text">>) @@ ("ocr_success" :> FALSE)
    ELSE ("ocr_per_page_content" :> [i \in 1..pages |-> "text"]) @@ ("ocr_success" :> TRUE)

\* recognize_file_with_ocr; pages = 0 when the engine fails or raises
recognize_file_with_ocr(state, pages) ==
    IF state["ocr_current_file_path"] = None \/ pages = 0
    THEN ("ocr_per_page_content" :> <<>>) @@ ("ocr_success" :> FALSE)
    ELSE ("ocr_per_page_content" :> [i \in 1..pages |-> "text"]) @@ ("ocr_success" :> TRUE)

\* save_ocr_pages_to_files; saved = the pages whose file could be written
save_ocr_pages_to_files(state, saved) ==
    IF state["ocr_per_page_content"] = <<>> \/ state["ocr_result_page_folder"] = None
    THEN "ocr_page_files" :> <<>>
    ELSE "ocr_page_files" :>
            [i \in 1..saved |-> state["ocr_result_page_folder"] \o "/" \o ToString(i) \o ".md"]

create_file_metadata(state) ==
    LET current_file == state["ocr_current_file_path"]
        page_files == state["ocr_page_files"]
        key == state["ocr_current_ioc_group_key"]
        cleared == ("ocr_current_file_index" :> state["ocr_current_file_index"] + 1)
                   @@ ("ocr_current_file_path" :> None)
                   @@ ("ocr_current_file_type" :> None)
                   @@ ("ocr_result_page_folder" :> None)
                   @@ ("ocr_result_base_folder" :> None)
                   @@ ("ocr_per_page_content" :> <<>>)
                   @@ ("ocr_page_files" :> <<>>)
                   @@ ("ocr_success" :> FALSE)
    IN IF current_file = None \/ page_files = <<>> THEN cleared
       ELSE ("ocr_results" :>
                Put(state["ocr_results"], key,
                    Put(Get(state["ocr_results"], key, <<>>), current_file,
                        state["ocr_result_base_folder"])))
            @@ ("ocr_current_group_metadata" :>
                Append(state["ocr_current_group_metadata"],
                       Metadata(current_file, Unclassified)))
            @@ cleared

\* the file OCR sub-graph, node after node, from the record it is entered
\* with, up to the entry of its last node create_file_metadata
file_ocr_recognized(state, pages, saved) ==
    LET s0 == ConsInput(state)
        s1 == ConsApply(s0, prepare_file_info(s0))
        s2 == ConsApply(s1, create_result_directory(s1))
        s3 == ConsApply(s2, recognize_file_with_ocr(s2, pages))
    IN ConsApply(s3, save_ocr_pages_to_files(s3, saved))

\* the file OCR sub-graph: the record it ends with
file_ocr_processing_graph(state, pages, saved) ==
    LET s4 == file_ocr_recognized(state, pages, saved)
    IN ConsApply(s4, create_file_metadata(s4))

\* variant: the group is classified after the OCR of one file
classify_after_one(state) == "classify"

has_more_files_in_group(state) ==
    IF state["ocr_current_file_index"] < Len(state["ocr_current_group_files"])
    THEN "continue" ELSE "classify"

has_more_groups(state) ==
    IF state["ocr_current_ioc_group_index"] < Len(state["ioc_groups"])
    THEN "continue" ELSE "end"

\* classify_single_file reads the saved pages of a file: the category is the file's
Categories == DocTypes \cup {Unclassified}

\* the Error Item an except branch of classification or persistence builds:
\* ErrorItem(error_type=, error_location=, error_description=, related_file=)
FaultItem(error_type, key, related_file) ==
    [error_type |-> error_type, error_location |-> key,
     error_description |-> "failed", related_file |-> related_file]

\* classify_ioc_group_documents; raised = an exception inside its try block
classify_ioc_group_documents(state, category, raised) ==
    LET key == state["ocr_current_ioc_group_key"]
        group_idx == state["ocr_current_ioc_group_index"]
        metadata == state["ocr_current_group_metadata"]
        classified == [i \in DOMAIN metadata |->
                          [metadata[i] EXCEPT !.category = category[metadata[i].file]]]
    IN IF key = None \/ metadata = <<>>
       THEN ("ocr_current_ioc_group_index" :> group_idx + 1)
            @@ ("ocr_current_ioc_group_key" :> None)
       ELSE IF raised
       THEN ("errors" :> Append(state["errors"],
                                FaultItem("classification_error", key, "")))
            @@ ("ocr_current_ioc_group_index" :> group_idx + 1)
            @@ ("ocr_current_ioc_group_key" :> None)
       ELSE ("ocr_classifications" :>
                Put(state["ocr_classifications"], key,
                    [i \in DOMAIN classified |->
                        <<classified[i].file, classified[i].category>>]))
            @@ ("ocr_current_group_metadata" :> classified)
            @@ ("ocr_current_ioc_group_key" :> key)

\* update_metadata_with_extraction; outcome: saved, raised an exception, or
\* the base path of the results is not configured; stored: the metadata files
\* on disk, by group key
update_metadata_with_extraction(state, outcome, stored) ==
    LET key == state["extraction_current_ioc_group_key"]
        group_idx == state["ocr_current_ioc_group_index"]
        results == state["extraction_results"]
        read == IF key \in DOMAIN stored THEN stored[key]
                ELSE state["ocr_current_group_metadata"]
        metadata_list ==
            [i \in DOMAIN read |->
                LET m == read[i] IN
                IF m.file \in DOMAIN results
                THEN Put(m, "results", DictUpdate(Get(m, "results", <<>>), results[m.file]))
                ELSE m]
    IN IF key = None \/ outcome = "no_base_path"
       THEN ("extraction_current_ioc_group_key" :> None)
            @@ ("ocr_current_ioc_group_key" :> None)
            @@ ("ocr_current_ioc_group_index" :> group_idx + 1)
       ELSE IF outcome = "raised"
       THEN ("errors" :> Append(state["errors"],
                                FaultItem("metadata_update_error", key, key \o "/metadata.json")))
            @@ ("ocr_current_group_metadata" :> <<>>)
            @@ ("ocr_current_ioc_group_key" :> None)
            @@ ("ocr_current_ioc_group_index" :> group_idx + 1)
            @@ ("extraction_current_ioc_group_key" :> None)
            @@ ("extraction_results" :> <<>>)
       ELSE ("ocr_metadata" :> Put(state["ocr_metadata"], key, metadata_list))
            @@ ("ocr_current_group_metadata" :> <<>>)
            @@ ("ocr_current_ioc_group_key" :> None)
            @@ ("ocr_current_ioc_group_index" :> group_idx + 1)
            @@ ("extraction_current_ioc_group_key" :> None)
            @@ ("extraction_results" :> <<>>)

\* the Error Items a node's except branch produced: it returns the list it
\* read with its own item appended
NewItems(state, update) ==
    IF "errors" \in DOMAIN update
    THEN SubSeq(update["errors"], Len(state["errors"]) + 1, Len(update["errors"]))
    ELSE <<>>

\* START and the "continue" edge of has_more_groups -> prepare_ocr_for_group
Prepare ==
    /\ cons.pc = "prepare_ocr_for_group"
    /\ cons' = [cons EXCEPT
                   !.state = ConsApply(@, prepare_ioc_group_for_ocr(cons.state)),
                   !.log = Append(@, <<"prepare_ocr_for_group",
                                       cons.state["ocr_current_ioc_group_index"]>>),
                   !.pc = "process_file_with_ocr"]
    /\ UNCHANGED <<graphVars, eqVars, comb, root>>

\* process_file_with_ocr: the file OCR sub-graph on the current file, its
\* record written back, then has_more_files_in_group; an exception of a node
\* ends the run
ProcessFile ==
    /\ cons.pc = "process_file_with_ocr"
    /\ LET entered == ConsInput(cons.state)
           informed == ConsApply(entered, prepare_file_info(entered))
       IN IF create_result_directory_raises(informed)
          THEN cons' = [cons EXCEPT !.pc = "raised"]
          ELSE \E pages \in 0..MaxOcrPages : \E saved \in 0..pages :
                  LET final == file_ocr_processing_graph(cons.state, pages, saved)
                      next == ConsApply(cons.state, final)
                  IN cons' = [cons EXCEPT
                                 !.state = next,
                                 !.sub = final,
                                 !.ocr = file_ocr_recognized(cons.state, pages, saved),
                                 !.log = Append(@, <<"process_file_with_ocr",
                                                     informed["ocr_current_file_path"]>>),
                                 !.pc = IF has_more_files_in_group(next) = "continue"
                                        THEN "process_file_with_ocr"
                                        ELSE "classify_ioc_group_documents"]
    /\ UNCHANGED <<graphVars, eqVars, comb, root>>

Classify ==
    /\ cons.pc = "classify_ioc_group_documents"
    /\ \E raised \in BOOLEAN :
          LET update == classify_ioc_group_documents(cons.state, cons.disk, raised) IN
          cons' = [cons EXCEPT
                      !.state = ConsApply(@, update),
                      !.made = @ \o NewItems(cons.state, update),
                      !.pc = "filter_documents_by_type"]
    /\ UNCHANGED <<graphVars, eqVars, comb, root>>

\* filter_documents_by_type, then the extraction sub-graph is entered
Filter ==
    /\ cons.pc = "filter_documents_by_type"
    /\ LET next == ConsApply(cons.state, filter_documents_by_type(cons.state)) IN
       cons' = [cons EXCEPT !.state = next, !.sub = ConsInput(next), !.ran = {},
                            !.xwrites = <<>>, !.pc = "extract_structured_data"]
    /\ UNCHANGED <<graphVars, eqVars, comb, root>>

\* update_metadata_with_extraction, then has_more_groups
Persist ==
    /\ cons.pc = "update_metadata_with_extraction"
    /\ \E outcome \in {"saved", "raised", "no_base_path"} :
          LET update == update_metadata_with_extraction(cons.state, outcome, cons.stored)
              next == ConsApply(cons.state, update)
              key == cons.state["extraction_current_ioc_group_key"]
          IN cons' = [cons EXCEPT
                         !.state = next,
                         !.stored = IF "ocr_metadata" \in DOMAIN update
                                    THEN Put(@, key, update["ocr_metadata"][key]) ELSE @,
                         !.made = @ \o NewItems(cons.state, update),
                         !.pc = IF has_more_groups(next) = "continue"
                                THEN "prepare_ocr_for_group" ELSE "END"]
    /\ UNCHANGED <<graphVars, eqVars, comb, root>>

\* the groups found by discover_ioc_groups: a group's folder is gone, or it
\* holds files, up to maxFiles in the first group and maxLater in a later one
GroupLists(maxGroups, maxFiles, maxLater) ==
    UNION {{[g \in 1..n |->
                IF count[g] < 0 THEN Group(FALSE, <<>>)
                ELSE Group(TRUE, [i \in 1..count[g] |-> GroupFile(g, i)])] :
               count \in {c \in [1..n -> -1..maxFiles] :
                             \A g \in 2..n : c[g] <= maxLater}} :
           n \in 0..maxGroups}

FilesOf(ioc_groups) ==
    UNION {Range(ioc_groups[g].files) : g \in DOMAIN ioc_groups}

\* the graph is invoked with the discovered groups; disk: the category the
\* pages of each file show; ocr: the record of the last file's OCR when its
\* metadata is about to be created
\* the metadata files an earlier run left on disk: none, or (prior) the file
\* of the first group, written when the group held only the first of its files
PriorStores(ioc_groups, disk, prior) ==
    {<<>>} \cup
    {GroupKey(0) :> [i \in 1..n |-> Metadata(ioc_groups[1].files[i],
                                               disk[ioc_groups[1].files[i]])] :
        n \in IF prior /\ ioc_groups # <<>> THEN 1..Len(ioc_groups[1].files) ELSE {}}

\* stored: the metadata files on disk, by group key
InvokeOcr(maxGroups, maxFiles, maxLater, prior) ==
    \E ioc_groups \in GroupLists(maxGroups, maxFiles, maxLater) :
    \E disk \in [FilesOf(ioc_groups) -> Categories] :
    \E stored \in PriorStores(ioc_groups, disk, prior) :
        cons = [pc |-> "prepare_ocr_for_group",
                state |-> ConsInput("ioc_groups" :> ioc_groups),
                sub |-> <<>>, ran |-> {}, xwrites |-> <<>>, log |-> <<>>,
                made |-> <<>>, disk |-> disk, ocr |-> <<>>, stored |-> stored]

\* the OCR graph run on its own
InitOcr(maxGroups, maxFiles, maxLater, prior) ==
    /\ InvokeOcr(maxGroups, maxFiles, maxLater, prior)
    /\ parent = ChannelDefaults
    /\ pagesOf = <<>>
    /\ writes = [ns \in Namespaces |-> <<>>]
    /\ sub = [ns \in Namespaces |-> ChannelDefaults]
    /\ pc = [ns \in Namespaces |-> "idle"]
    /\ calls = [ns \in Namespaces |-> <<>>]
    /\ log = [ns \in Namespaces |-> <<>>]
    /\ batch = ChannelDefaults
    /\ bpc = "idle"
    /\ memo = <<>>
    /\ comb = CombIdle
    /\ root = RootIdle

NextOcr ==
    \/ Prepare
    \/ ProcessFile
    \/ Classify
    \/ Filter
    \/ \E n \in FilterNodes : FilterStep(n)
    \/ \E b \in Branches : ExtractStep(b)
    \/ FinishExtraction
    \/ CheckQuantity
    \/ Persist

InitGroups == InitOcr(MaxGroups, MaxGroupFiles, MaxLaterFiles, FALSE)

SpecOcr == InitGroups /\ [][NextOcr]_vars

\* a first group of more files, followed by groups without files
InitLongGroup == InitOcr(MaxGroups, LongGroupFiles, LongLaterFiles, FALSE)

SpecLongGroup == InitLongGroup /\ [][NextOcr]_vars

\* one group of up to two files whose metadata file may be on disk already
PriorGroups == 1

InitPrior == InitOcr(PriorGroups, LongGroupFiles, 0, TRUE)

SpecPrior == InitPrior /\ [][NextOcr]_vars

\* ------------------------------------------------------------- root graph
\* START -> scan_directory -> normative_checks || consistency_checks -> END
RootGroups == 1

RootGroupFiles == 1

\* the normative graph has ended: every branch's record is merged
NormativeEnded == \A ns \in Namespaces : pc[ns] = "merged"

\* scan_directory: the file list and an empty error list, written through add
ScanDirectory ==
    /\ root.pc = "scan_directory"
    /\ root' = [root EXCEPT !.errors = add(@, <<>>), !.pc = "checks"]
    /\ UNCHANGED <<graphVars, eqVars, comb, cons>>

\* the graphs of the step share no record while they run, and each writes to
\* the root record only when it has ended: their steps are taken one graph
\* after the other, and one namespace's sub-graph after the other
BranchOrder == <<"date", "seal", "signature">>

Turn(ns) ==
    \A i, j \in DOMAIN BranchOrder :
        (i < j /\ BranchOrder[j] = ns) => pc[BranchOrder[i]] = "end"

\* consistency_checks: a step of the OCR graph the consistency graph ends with
ConsistencyChecks == root.pc = "checks" /\ NextOcr

\* consistency_checks has ended: the error list of its record is the node's
\* write to the root record, and the record is dropped
ConsistencyReturns ==
    /\ root.pc = "checks"
    /\ cons.pc = "END"
    /\ root' = [root EXCEPT !.writes = Put(@, "consistency_checks", cons.state["errors"]),
                            !.made = @ \o cons.made]
    /\ cons' = [pc |-> "returned"]
    /\ UNCHANGED <<graphVars, eqVars, comb>>

\* normative_checks: a step of the normative graph
NormativeChecks ==
    /\ root.pc = "checks"
    /\ cons.pc = "returned"
    /\ \/ \E ns \in Namespaces : Collect(ns)
       \/ StartChecks
       \/ \E ns \in Namespaces : Turn(ns) /\ Detect(ns)
       \/ \E ns \in Namespaces : Turn(ns) /\ Extract(ns)
       \/ \E ns \in Namespaces : Turn(ns) /\ Verify(ns)
       \/ FinishChecks

\* the Error Items the Verify steps of the normative graph produced: each
\* sub-graph's error list starts empty and Verify appends to it
NormativeMade == sub["date"][ERRORS] \o sub["seal"][ERRORS] \o sub["signature"][ERRORS]

\* end of the step of the two graphs: the normative graph's error list is its
\* write, and the two writes go to the root record through add, in either order
RootFinish ==
    /\ root.pc = "checks"
    /\ NormativeEnded
    /\ \E order \in Orders({"normative_checks", "consistency_checks"}) :
          LET returned == Put(root.writes, "normative_checks", parent[ERRORS])
          IN root' = [root EXCEPT
                         !.errors = add(add(@, returned[order[1]]), returned[order[2]]),
                         !.writes = returned,
                         !.made = @ \o NormativeMade,
                         !.pc = "END"]
    /\ UNCHANGED <<graphVars, eqVars, comb, cons>>

NextRoot ==
    \/ ScanDirectory
    \/ ConsistencyChecks
    \/ ConsistencyReturns
    \/ NormativeChecks
    \/ RootFinish

\* the root graph is invoked on a directory: the files scan_directory finds
\* and the groups discover_ioc_groups finds in it
InitRoot ==
    /\ InvokeNormative(Namespaces, NormFiles, NormPages)
    /\ InvokeOcr(RootGroups, RootGroupFiles, 0, FALSE)
    /\ root = [pc |-> "scan_directory", errors |-> <<>>, writes |-> <<>>, made |-> <<>>]

SpecRoot == InitRoot /\ [][NextRoot]_vars

\* ---------------------------------------------------- classify_single_file
MaxClassifyPages == 3

\* variant: the contract rule is tried first
classifiers_contract_first == <<"purchase_contract", "delivery_note", "purchase_receipt">>

\* the classification rules in the order classify_single_file tries them
\* (is_purchase_receipt, is_delivery_note, is_contract_folder), each named by
\* the category it returns
classifiers == <<"purchase_receipt", "delivery_note", "purchase_contract">>

\* a page file of the OCR result: it is missing, it cannot be read, or it
\* holds a text that the rules of a set match
PageFiles ==
    {[exists |-> FALSE, readable |-> FALSE, rules |-> {}],
     [exists |-> TRUE, readable |-> FALSE, rules |-> {}]}
    \cup {[exists |-> TRUE, readable |-> TRUE, rules |-> S] : S \in SUBSET DocTypes}

\* the first classifier, from position k on, whose rule matches the text
RECURSIVE TryClassifiers(_, _)
TryClassifiers(page_content, k) ==
    IF k > Len(classifiers) THEN None
    ELSE IF classifiers[k] \in page_content THEN classifiers[k]
    ELSE TryClassifiers(page_content, k + 1)

\* classify_single_file from page i on; opened: the page files read so far
RECURSIVE ClassifyFrom(_, _, _)
ClassifyFrom(ocr_page_files, i, opened) ==
    IF i > Len(ocr_page_files)
    THEN [category |-> Unclassified, matched_page |-> 0, opened |-> opened]
    ELSE LET page_file == ocr_page_files[i] IN
         IF ~page_file.exists THEN ClassifyFrom(ocr_page_files, i + 1, opened)
         ELSE IF ~page_file.readable
         THEN ClassifyFrom(ocr_page_files, i + 1, opened \cup {i})
         ELSE LET result == TryClassifiers(page_file.rules, 1) IN
              IF result # None
              THEN [category |-> result, matched_page |-> i, opened |-> opened \cup {i}]
              ELSE ClassifyFrom(ocr_page_files, i + 1, opened \cup {i})

classify_single_file(ocr_page_files) == ClassifyFrom(ocr_page_files, 1, {})

\* classify_single_file called on the page files of one document
ClassifyFile ==
    /\ cons.pc = "classify_single_file"
    /\ cons' = [cons EXCEPT !.result = classify_single_file(cons.pages),
                            !.pc = "classified"]
    /\ UNCHANGED <<graphVars, eqVars, comb, root>>

InitClassify ==
    /\ \E n \in 0..MaxClassifyPages : \E pages \in [1..n -> PageFiles] :
          cons = [pc |-> "classify_single_file", pages |-> pages,
                  result |-> [category |-> Unclassified, matched_page |-> 0, opened |-> {}]]
    /\ parent = ChannelDefaults
    /\ pagesOf = <<>>
    /\ writes = [ns \in Namespaces |-> <<>>]
    /\ sub = [ns \in Namespaces |-> ChannelDefaults]
    /\ pc = [ns \in Namespaces |-> "idle"]
    /\ calls = [ns \in Namespaces |-> <<>>]
    /\ log = [ns \in Namespaces |-> <<>>]
    /\ batch = ChannelDefaults
    /\ bpc = "idle"
    /\ memo = <<>>
    /\ comb = CombIdle
    /\ root = RootIdle

SpecClassify == InitClassify /\ [][ClassifyFile]_vars

\* ------------------------------------- extract_*_from_documents (business.py)
MaxReuseDocs == 2

MaxReusePages == 2

\* a page file of a document: missing, or read and handed to the model, whose
\* response parses, does not parse, or whose call raises
ReusePages == {"missing", "parsed", "unparsed", "raised"}

\* the page results an earlier run stored in a document's record
StoredResult == <<[parsed |-> "stored", raw_response |-> "stored"]>>

\* the structured results a document's record carries: none, the result of
\* this branch, or the result of another branch
ExistingResults(prompt_name) ==
    {<<>>, prompt_name :> StoredResult, "other.txt" :> StoredResult}

ReuseDocuments(prompt_name) ==
    UNION {{[i \in 1..n |-> [file |-> FilePool[i], existing |-> e[i], pages |-> p[i]]] :
               e \in [1..n -> ExistingResults(prompt_name)],
               p \in [1..n -> UNION {[1..k -> ReusePages] : k \in 0..MaxReusePages}]} :
           n \in 0..MaxReuseDocs}

\* the results of the pages of one document from page k on
RECURSIVE PageResults(_, _)
PageResults(pages, k) ==
    IF k > Len(pages) THEN <<>>
    ELSE IF pages[k] = "parsed"
    THEN <<[parsed |-> "answer", raw_response |-> "answer"]>> \o PageResults(pages, k + 1)
    ELSE IF pages[k] = "unparsed"
    THEN <<[parsed |-> None, raw_response |-> "answer"]>> \o PageResults(pages, k + 1)
    ELSE PageResults(pages, k + 1)

\* the loop over the documents from document i on; invocations: the model calls made,
\* as <<document, page>>
RECURSIVE ExtractFrom(_, _, _, _, _)
ExtractFrom(documents, prompt_name, i, results, invocations) ==
    IF i > Len(documents) THEN [results |-> results, calls |-> invocations]
    ELSE LET metadata == documents[i]
             original_file == metadata.file
             page_results == PageResults(metadata.pages, 1)
             invoked == {<<i, k>> : k \in {j \in DOMAIN metadata.pages :
                                              metadata.pages[j] # "missing"}}
         IN IF prompt_name \in DOMAIN metadata.existing
            THEN ExtractFrom(documents, prompt_name, i + 1,
                             Put(results, original_file, metadata.existing[prompt_name]),
                             invocations)
            ELSE IF metadata.pages = <<>>
            THEN ExtractFrom(documents, prompt_name, i + 1, results, invocations)
            ELSE ExtractFrom(documents, prompt_name, i + 1,
                             IF page_results # <<>>
                             THEN Put(results, original_file, page_results) ELSE results,
                             invocations \cup invoked)

\* extract_delivery_note_date_from_documents and its siblings; prompt_template
\* is empty or not, model_ready is FALSE when get_qwen3_text_llm raises
extract_from_documents(documents, prompt_name, prompt_template, model_ready) ==
    IF prompt_template = "" THEN [results |-> <<>>, calls |-> {}]
    ELSE IF ~model_ready THEN [results |-> <<>>, calls |-> {}]
    ELSE ExtractFrom(documents, prompt_name, 1, <<>>, {})

\* a branch's business function called on the documents of its category
ExtractDocuments ==
    /\ cons.pc = "extract_from_documents"
    /\ cons' = [cons EXCEPT
                   !.returned = extract_from_documents(cons.documents, cons.prompt_name,
                                                       cons.prompt_template, cons.model_ready),
                   !.pc = "extracted"]
    /\ UNCHANGED <<graphVars, eqVars, comb, root>>

InitReuse ==
    /\ \E documents \in ReuseDocuments(PromptKey("extract_delivery_note_date")) :
       \E prompt_template \in {"", "prompt"} : \E model_ready \in BOOLEAN :
          cons = [pc |-> "extract_from_documents", documents |-> documents,
                  prompt_name |-> PromptKey("extract_delivery_note_date"),
                  prompt_template |-> prompt_template, model_ready |-> model_ready,
                  returned |-> [results |-> <<>>, calls |-> {}]]
    /\ parent = ChannelDefaults
    /\ pagesOf = <<>>
    /\ writes = [ns \in Namespaces |-> <<>>]
    /\ sub = [ns \in Namespaces |-> ChannelDefaults]
    /\ pc = [ns \in Namespaces |-> "idle"]
    /\ calls = [ns \in Namespaces |-> <<>>]
    /\ log = [ns \in Namespaces |-> <<>>]
    /\ batch = ChannelDefaults
    /\ bpc = "idle"
    /\ memo = <<>>
    /\ comb = CombIdle
    /\ root = RootIdle

SpecReuse == InitReuse /\ [][ExtractDocuments]_vars

\* ================================================================= claims
RunNs == CHOOSE ns \in Namespaces : pc[ns] # "idle"

\* C1: when the streaming run and the batch run over the same file list and
\* the same deterministic capability responses have both ended, they hold the
\* same region map, the same identifier map and the same set of Error Items.
C1_StreamingEqualsBatch ==
    (pc[RunNs] = "end" /\ bpc = "end") =>
        /\ sub[RunNs][RegionsField(RunNs)] = batch[RegionsField(RunNs)]
        /\ sub[RunNs][IdentifiersField(RunNs)] = batch[IdentifiersField(RunNs)]
        /\ Range(sub[RunNs][ERRORS]) = Range(batch[ERRORS])

\* both runs ended on two files, each with identifiers, and with an Error Item
C1_Witness ==
    /\ pc[RunNs] = "end" /\ bpc = "end"
    /\ Len(batch[FILES]) = 2
    /\ DOMAIN batch[IdentifiersField(RunNs)] = Range(batch[FILES])
    /\ batch[ERRORS] # <<>>
    /\ sub[RunNs][ERRORS] = batch[ERRORS]

AllMerged == \A ns \in Namespaces : pc[ns] = "merged"

\* C2: after the date, seal and signature branches have run in parallel and
\* their records have been merged into the shared record, the region map and
\* the identifier map of each namespace are the maps its own branch produced.
C2_BranchMapsSurviveMerge ==
    AllMerged =>
        \A ns \in Namespaces :
            /\ parent[RegionsField(ns)] = sub[ns][RegionsField(ns)]
            /\ parent[IdentifiersField(ns)] = sub[ns][IdentifiersField(ns)]

AllFolded == comb.kind # "idle" /\ Len(comb.order) = Len(comb.props) /\ ~comb.again

RECURSIVE FoldInOrder(_, _, _, _)
FoldInOrder(kind, acc, props, order) ==
    IF order = <<>> THEN acc
    ELSE FoldInOrder(kind, Combine(kind, acc, props[Head(order)]), props, Tail(order))

\* C3: for each of the six combinators, once the proposals of all concurrent
\* branches are folded into the old value, in whatever order, the field holds
\* the value that folding them in branch order gives.
C3_AnyOrderSameValue ==
    AllFolded =>
        comb.acc = FoldInOrder(comb.kind, comb.old, comb.props,
                               [i \in 1..Len(comb.props) |-> i])

Maximum(S) == CHOOSE m \in S : \A v \in S : v <= m

\* C4: a field with the max combinator always equals the maximum of its
\* initial value and the values proposed so far, whatever their order, and a
\* proposal delivered a second time leaves it unchanged.
C4_MaxIsMaximum ==
    comb.kind = "max_reducer" =>
        comb.acc = Maximum({comb.old} \cup {comb.props[i] : i \in Range(comb.order)})

\* three distinct proposals folded out of order, then one of them again
C4_Witness ==
    /\ comb.kind = "max_reducer"
    /\ comb.again
    /\ comb.old = 1
    /\ comb.order = <<2, 3, 1>>
    /\ comb.props = <<1, 2, 0>>
    /\ comb.acc = 2

\* the step of namespace ns is an execution of its stage k
StageRan(ns, k) == pc[ns] = StageName(k) /\ log'[ns] # log[ns]

\* C5: an execution of Detect, Extract or Verify whose index is below the file
\* count raises that stage's own index by exactly one, whatever the outcome of
\* the load and of the capability calls; and no step of the normative graph
\* lowers a stage index, in the shared record or in a branch's record.
C5_IndexesAdvance ==
    [][/\ \A ns \in Namespaces, k \in 1..3 :
            (StageRan(ns, k) /\ InRange(sub[ns], ns, k)) =>
                sub'[ns][IndexField(ns, k)] = sub[ns][IndexField(ns, k)] + 1
       /\ \A f \in IndexFields :
            /\ parent'[f] >= parent[f]
            /\ \A ns \in Namespaces : sub'[ns][f] >= sub[ns][f]]_vars

\* the three Detect executions ended: one with a raised capability call, one
\* with a load failure, one with a region found; each index moved to 1
C5_Witness ==
    /\ \A ns \in Namespaces : pc[ns] = "extract" /\ sub[ns][IndexField(ns, 1)] = 1
    /\ Responses("date") = (1 :> "error")
    /\ Responses("seal") = <<>>
    /\ Responses("signature") = (1 :> "yes")

Ended(ns) == pc[ns] \in {"end", "merged"}

\* Detect, Extract, Verify for the first file, then for the second, and so on
ExpectedRuns(n) == [j \in 1..3 * n |-> <<StageName(((j - 1) % 3) + 1), (j - 1) \div 3>>]

\* the executions that had a file to process
FileRuns(ns) == SelectSeq(log[ns], LAMBDA e : e[2] < Len(sub[ns][FILES]))

C7_StagesInOrderPerFile ==
    \A ns \in Namespaces : \A j \in DOMAIN log[ns] :
        LET e == log[ns][j] IN
        /\ e[1] = "extract" => \E i \in 1..(j - 1) : log[ns][i] = <<"detect", e[2]>>
        /\ e[1] = "verify" => \E i \in 1..(j - 1) : log[ns][i] = <<"extract", e[2]>>

\* both files went through the three stages and both had identifiers to verify
C7_Witness ==
    /\ pc[RunNs] = "end"
    /\ Len(log[RunNs]) = 6
    /\ DOMAIN sub[RunNs][IdentifiersField(RunNs)] = {"a.pdf", "b.pdf"}
    /\ DOMAIN Responses(RunNs) # {}

RegionPages(ns, file) == Range(Get(sub[ns][RegionsField(ns)], file, <<>>))

\* what Extract may change when it has nothing to do for its file
ExtractProgress(ns) == {IndexField(ns, 2), CurrentField(ns, 2)}

C9_NoEmptyIdentifierList ==
    \A ns \in Namespaces :
        \A f \in DOMAIN sub[ns][IdentifiersField(ns)] :
            \A p \in DOMAIN sub[ns][IdentifiersField(ns)][f] :
                sub[ns][IdentifiersField(ns)][f][p] # <<>>

\* the Error Items an execution of Verify has appended
NewErrors(ns) ==
    SubSeq(sub'[ns][ERRORS], Len(sub[ns][ERRORS]) + 1, Len(sub'[ns][ERRORS]))

\* the identifiers of a page whose verification call answered negative or raised
Negative(ns, file, page) ==
    {sub[ns][IdentifiersField(ns)][file][page][c[2]] :
        c \in {d \in DOMAIN Responses(ns)' : d[1] = page /\ Responses(ns)'[d] # "positive"}}

ItemsOfPage(ns, file, page) ==
    {j \in DOMAIN NewErrors(ns) : NewErrors(ns)[j].pages = (file :> <<page>>)}

\* C10: an execution of Verify for a file appends exactly one Error Item, of
\* category normative and of the namespace's missing type, for each page of the
\* file's identifier entry with at least one identifier whose verification
\* answered negative or raised, listing exactly those identifiers; it appends
\* no Error Item for any other page, and none for a file with no identifiers.
C10_OneErrorPerNegativePage ==
    [][\A ns \in Namespaces :
        (StageRan(ns, 3) /\ InRange(sub[ns], ns, 3)) =>
            LET file == CurrentFile(sub[ns], ns, 3)
                extracted == Get(sub[ns][IdentifiersField(ns)], file, <<>>)
            IN /\ sub'[ns][ERRORS] = sub[ns][ERRORS] \o NewErrors(ns)
               /\ \A j \in DOMAIN NewErrors(ns) :
                     /\ NewErrors(ns)[j].error_category = "normative"
                     /\ NewErrors(ns)[j].error_type = <<ns, "missing">>
                     /\ NewErrors(ns)[j].files = <<file>>
                     /\ \E p \in DOMAIN extracted : j \in ItemsOfPage(ns, file, p)
               /\ \A p \in DOMAIN extracted :
                     IF Negative(ns, file, p) = {}
                     THEN ItemsOfPage(ns, file, p) = {}
                     ELSE /\ Cardinality(ItemsOfPage(ns, file, p)) = 1
                          /\ \A j \in ItemsOfPage(ns, file, p) :
                                /\ Range(NewErrors(ns)[j].metadata.missing) = Negative(ns, file, p)
                                /\ Len(NewErrors(ns)[j].metadata.missing)
                                      = Cardinality(Negative(ns, file, p))]_vars

\* Verify ended for a file with two pages: on page 1 one identifier answered
\* negative and one raised, on page 2 the identifier answered positive; one
\* Error Item, for page 1, lists the two
C10_Witness ==
    /\ Len(log[RunNs]) = 3
    /\ Responses(RunNs) = (<<1, 1>> :> "negative" @@ <<1, 2>> :> "error" @@ <<2, 1>> :> "positive")
    /\ Len(sub[RunNs][ERRORS]) = 1
    /\ sub[RunNs][ERRORS][1].pages = ("a.pdf" :> <<1>>)
    /\ Len(sub[RunNs][ERRORS][1].metadata.missing) = 2

\* the file list the normative graph received from the root graph
Received == FileList(Cardinality(DOMAIN pagesOf))

Started(ns) == pc[ns] \in {"detect", "extract", "verify", "end", "merged"}

\* C11: take_first keeps a non-empty list against every later proposal, empty
\* or not; in the normative graph the shared file list, and the file list of
\* every started branch, stay the list received from the root graph although
\* the three collect nodes each declare it again.
C11_FileListKept ==
    /\ \A x \in CombValues("take_first") \ {<<>>} :
          \A y \in CombValues("take_first") : take_first(x, y) = x
    /\ parent[FILES] = Received
    /\ \A ns \in Namespaces : Started(ns) => sub[ns][FILES] = Received

\* the three branches were merged back and the shared list is still the one file
C11_Witness ==
    /\ AllMerged
    /\ Received = <<"a.pdf">>
    /\ parent[FILES] = <<"a.pdf">>
    /\ \A ns \in Namespaces : sub[ns][FILES] = <<"a.pdf">>

\* the step folds one more proposal into the field
Proposed == Len(comb'.order) = Len(comb.order) + 1

LastProposal == comb'.props[comb'.order[Len(comb'.order)]]

\* C12: folding a proposal into a current-item pointer leaves the proposal in
\* the field when the proposal is not null, and leaves the old value when the
\* proposal is null, for every old value and every proposal.
C12_NewWinsUnlessNull ==
    [][(comb.kind = "replace_optional" /\ Proposed) =>
          comb'.acc = IF LastProposal # None THEN LastProposal ELSE comb.acc]_vars

\* a pointer at a.pdf took the proposal b.pdf and then kept it against a null one
C12_Witness ==
    /\ comb.kind = "replace_optional"
    /\ comb.old = "a.pdf"
    /\ comb.props = <<"b.pdf", None>>
    /\ comb.order = <<1, 2>>
    /\ comb.acc = "b.pdf"

IsMerge == comb.kind \in {"merge_ocr_results", "merge_extraction_results"}

\* no file's record has an inner key in both x and y
KeysDisjoint(x, y) ==
    \A k \in (DOMAIN x) \cap (DOMAIN y) : (DOMAIN x[k]) \cap (DOMAIN y[k]) = {}

\* the values under merge in this state: the old value and the proposals
Operands == {comb.old} \cup Range(comb.props)

AllDisjoint ==
    /\ \A i \in DOMAIN comb.props : KeysDisjoint(comb.old, comb.props[i])
    /\ \A i, j \in DOMAIN comb.props : i # j => KeysDisjoint(comb.props[i], comb.props[j])

\* C13: on values whose inner keys are disjoint the two deep merges are
\* commutative and associative, and once the writes of all branches are folded,
\* in whatever order, the field holds every key of every branch with its value.
C13_MergeOfDisjointKeys ==
    IsMerge =>
        /\ \A x, y \in Operands :
              KeysDisjoint(x, y) => Combine(comb.kind, x, y) = Combine(comb.kind, y, x)
        /\ \A x, y, z \in Operands :
              (KeysDisjoint(x, y) /\ KeysDisjoint(y, z) /\ KeysDisjoint(x, z)) =>
                  Combine(comb.kind, Combine(comb.kind, x, y), z)
                      = Combine(comb.kind, x, Combine(comb.kind, y, z))
        /\ (AllFolded /\ AllDisjoint) =>
              \A v \in Operands : \A k \in DOMAIN v : \A j \in DOMAIN v[k] :
                  /\ k \in DOMAIN comb.acc
                  /\ j \in DOMAIN comb.acc[k]
                  /\ comb.acc[k][j] = v[k][j]

\* two branches wrote different keys for a.pdf, the second one first; the
\* record of a.pdf holds both
C13_Witness ==
    /\ comb.kind = "merge_extraction_results"
    /\ comb.old = <<>>
    /\ comb.props = <<("a.pdf" :> ("contract_items" :> "v1")), ("a.pdf" :> ("contract_date" :> "v1"))>>
    /\ comb.order = <<2, 1>>
    /\ DOMAIN comb.acc["a.pdf"] = {"contract_date", "contract_items"}

\* the file records a branch returned, and the keys it wrote for a file
Written(b) ==
    IF b \in DOMAIN cons.xwrites THEN Get(cons.xwrites[b], "extraction_results", <<>>)
    ELSE <<>>

KeysWritten(b, f) == IF f \in DOMAIN Written(b) THEN DOMAIN Written(b)[f] ELSE {}

SameType == {p \in Branches \X Branches : p[1] # p[2] /\ BranchType(p[1]) = BranchType(p[2])}

Extracted == cons.pc = "check_consistencies"

\* C14 as stated: for every file, the branches of one document type write
\* pairwise disjoint key sets into the file's record; no key of the record is
\* written by two branches.
C14_NoKeyWrittenTwice ==
    \A p \in SameType : \A f \in Range(FilePool) :
        KeysWritten(p[1], f) \cap KeysWritten(p[2], f) = {}

\* C14: the only key two branches of one document type both write into a
\* file's record is __type__, and they write the same value under it; the keys
\* holding the prompt results are pairwise disjoint, so once the branches'
\* writes are merged the record holds every result as its branch wrote it.
C14_PromptKeysDisjoint ==
    /\ \A p \in SameType : \A f \in Range(FilePool) :
          /\ KeysWritten(p[1], f) \cap KeysWritten(p[2], f) \subseteq {TYPE}
          /\ PromptKey(p[1]) # PromptKey(p[2])
          /\ f \in DOMAIN Written(p[1]) /\ f \in DOMAIN Written(p[2])
                => Written(p[1])[f][TYPE] = Written(p[2])[f][TYPE]
    /\ Extracted =>
          \A b \in Branches : \A f \in DOMAIN Written(b) : \A k \in DOMAIN Written(b)[f] :
              cons.sub["extraction_results"][f][k] = Written(b)[f][k]

\* both delivery-note branches returned a result for a.pdf and the merged
\* record of a.pdf holds the two results next to __type__
C14_Witness ==
    /\ Extracted
    /\ "a.pdf" \in DOMAIN Written("extract_delivery_note_date")
    /\ "a.pdf" \in DOMAIN Written("extract_delivery_note_items")
    /\ DOMAIN cons.sub["extraction_results"]["a.pdf"] =
          {TYPE, "extract_delivery_note_date.txt", "extract_delivery_note_items.txt"}

Checked ==
    /\ cons.pc = "update_metadata_with_extraction"
    /\ "check_quantity_consistency" \in DOMAIN cons.xwrites

\* the Error Items the quantity check returned
Returned == Get(cons.xwrites["check_quantity_consistency"], "errors", <<>>)

Materials == {<<"bolt", "M8">>, <<"nut", "">>, <<"", "M8">>}

\* the rows the extraction results hold for a file, and what they report of a material
Reported(file, key) == Rows(cons.state["extraction_results"][file][key])

Reports(rows, m) ==
    {i \in DOMAIN rows : /\ rows[i].name = m[1] /\ rows[i].spec = m[2]
                         /\ rows[i].name # "" /\ rows[i].quantity[1] = "number"}

RECURSIVE TotalOf(_, _)
TotalOf(rows, S) ==
    IF S = {} THEN 0
    ELSE LET i == CHOOSE x \in S : TRUE IN rows[i].quantity[2] + TotalOf(rows, S \ {i})

Total(rows, m) == TotalOf(rows, Reports(rows, m))

ContractReport == Reported("c.pdf", "extract_purchase_contract_items.txt")

DeliveryReport == Reported("d.pdf", "extract_delivery_note_items.txt")

ReceiptReport == Reported("r.pdf", "extract_purchase_receipt_date_and_items.txt")

InAllThree(m) ==
    /\ Reports(ContractReport, m) # {}
    /\ Reports(DeliveryReport, m) # {}
    /\ Reports(ReceiptReport, m) # {}

\* the largest difference between two of the three sums of a material
Spread(m) ==
    LET c == Total(ContractReport, m)
        d == Total(DeliveryReport, m)
        r == Total(ReceiptReport, m)
        widest == CHOOSE x \in {Abs(c - d), Abs(c - r), Abs(d - r)} :
                      \A y \in {Abs(c - d), Abs(c - r), Abs(d - r)} : x >= y
    IN widest

ErrorsFor(m) ==
    {i \in DOMAIN Returned : /\ Returned[i].metadata.material_name = m[1]
                             /\ Returned[i].metadata.material_spec = m[2]}

C16_ErrorOnlyBeyondTolerance ==
    Checked =>
        \A m \in Materials :
            InAllThree(m) => (ErrorsFor(m) # {} <=> Spread(m) > Tolerance)

DateChecked ==
    /\ cons.pc = "checked"
    /\ "check_date_consistency" \in DOMAIN cons.xwrites

\* the Error Items the date-order check returned
DateErrors == Get(cons.xwrites["check_date_consistency"], "errors", <<>>)

\* the date strings that are dates of the calendar
CalendarDates == {DateText(2023, 4, 1), DateText(2023, 4, 2), DateText(2023, 4, 3)}

\* the calendar dates the extraction results hold for a file
Dated(file, key) ==
    Range(DateStrings(cons.state["extraction_results"][file][key])) \cap CalendarDates

ContractDated == Dated("c.pdf", "extract_purchase_contract_date.txt")

DeliveryDated == Dated("d.pdf", "extract_delivery_note_date.txt")

ReceiptDated == Dated("r.pdf", "extract_purchase_receipt_date_and_items.txt")

\* C17: when the contract, the delivery note or the receipt has no parseable
\* date in the extraction results, the date-order check returns no Error
\* Item, whatever the dates of the other two are.
C17_NoDateNoError ==
    DateChecked /\ (ContractDated = {} \/ DeliveryDated = {} \/ ReceiptDated = {})
        => DateErrors = <<>>

\* the contract holds only the string 2023-02-30, the delivery note is dated
\* after the receipt, and the check returned nothing
C17_Witness ==
    /\ DateChecked
    /\ DateStrings(cons.state["extraction_results"]["c.pdf"]
                       ["extract_purchase_contract_date.txt"]) = <<DateText(2023, 2, 30)>>
    /\ DeliveryDated = {DateText(2023, 4, 2)}
    /\ ReceiptDated = {DateText(2023, 4, 1)}
    /\ DateErrors = <<>>

Later(a, b) ==
    \/ a[1] > b[1]
    \/ a[1] = b[1] /\ a[2] > b[2]
    \/ a[1] = b[1] /\ a[2] = b[2] /\ a[3] > b[3]

First(dates) == CHOOSE a \in dates : \A b \in dates : ~Later(a, b)

ErrorsOfType(check_type) ==
    {i \in DOMAIN DateErrors : DateErrors[i].metadata["check_type"] = check_type}

\* C18: when all three document types have a parseable date, with c, d and r
\* the earliest date of the contract, the delivery note and the receipt, the
\* date-order check returns exactly one date_order_mismatch Error Item for
\* each of c > d, d > r and c > r that is true, none for one that is false
\* (equal dates included), and nothing else.
C18_OneErrorPerViolatedOrder ==
    DateChecked /\ ContractDated # {} /\ DeliveryDated # {} /\ ReceiptDated # {} =>
        LET c == First(ContractDated)
            d == First(DeliveryDated)
            r == First(ReceiptDated)
        IN /\ Cardinality(ErrorsOfType("date_order_contract_delivery"))
                 = IF Later(c, d) THEN 1 ELSE 0
           /\ Cardinality(ErrorsOfType("date_order_delivery_receipt"))
                 = IF Later(d, r) THEN 1 ELSE 0
           /\ Cardinality(ErrorsOfType("date_order_contract_receipt"))
                 = IF Later(c, r) THEN 1 ELSE 0
           /\ \A i \in DOMAIN DateErrors :
                 /\ DateErrors[i].error_type = "date_order_mismatch"
                 /\ DateErrors[i].metadata["check_type"] \in
                       {"date_order_contract_delivery", "date_order_delivery_receipt",
                        "date_order_contract_receipt"}

\* contract dated 3 and 2 April, delivery note 2 April, receipt 1 April: the
\* earliest contract date equals the delivery date, and both are after the receipt
C18_Witness ==
    /\ DateChecked
    /\ ContractDated = {DateText(2023, 4, 3), DateText(2023, 4, 2)}
    /\ DeliveryDated = {DateText(2023, 4, 2)}
    /\ ReceiptDated = {DateText(2023, 4, 1)}
    /\ Len(DateErrors) = 2
    /\ ErrorsOfType("date_order_contract_delivery") = {}

\* the order of the phases of one group
PhaseOrder ==
    {<<"prepare_ocr_for_group", "process_file_with_ocr">>,
     <<"process_file_with_ocr", "classify_ioc_group_documents">>,
     <<"classify_ioc_group_documents", "filter_documents_by_type">>,
     <<"filter_documents_by_type", "extract_structured_data">>,
     <<"extract_structured_data", "check_consistencies">>,
     <<"check_consistencies", "update_metadata_with_extraction">>,
     <<"update_metadata_with_extraction", "prepare_ocr_for_group">>,
     <<"update_metadata_with_extraction", "END">>,
     <<"process_file_with_ocr", "raised">>}

\* the files the OCR sub-pipeline ran on since the last preparation of a group
RECURSIVE OcrSincePrepare(_)
OcrSincePrepare(entries) ==
    IF entries = <<>> \/ entries[Len(entries)][1] = "prepare_ocr_for_group" THEN {}
    ELSE {entries[Len(entries)][2]} \cup OcrSincePrepare(SubSeq(entries, 1, Len(entries) - 1))

\* the group the last preparation was for
RECURSIVE LastPrepared(_)
LastPrepared(entries) ==
    IF entries[Len(entries)][1] = "prepare_ocr_for_group" THEN entries[Len(entries)][2]
    ELSE LastPrepared(SubSeq(entries, 1, Len(entries) - 1))

\* C19: the phases of a group follow each other in the order OCR of its files,
\* classification, filtering by type, extraction, consistency check,
\* persistence, preparation of the next group; when classification starts the
\* OCR sub-pipeline has run on every file of the group, and when the
\* consistency check starts all five extraction branches have returned.
C19_PhasesInOrder ==
    [][/\ cons'.pc # cons.pc => <<cons.pc, cons'.pc>> \in PhaseOrder
       /\ cons'.pc = "classify_ioc_group_documents" =>
             Range(cons'.state["ioc_groups"][LastPrepared(cons'.log) + 1].files)
                 \subseteq OcrSincePrepare(cons'.log)
       /\ cons'.pc = "check_consistencies" => Branches \subseteq cons'.ran]_vars

\* the first group's two files went through OCR, the group was classified,
\* extracted, checked and saved, and the next group has been prepared
C19_Witness ==
    /\ cons.pc = "process_file_with_ocr"
    /\ cons.log = <<<<"prepare_ocr_for_group", 0>>,
                    <<"process_file_with_ocr", GroupFile(1, 1)>>,
                    <<"process_file_with_ocr", GroupFile(1, 2)>>,
                    <<"prepare_ocr_for_group", 1>>>>
    /\ Branches \subseteq cons.ran
    /\ GroupKey(0) \in DOMAIN cons.state["ocr_metadata"]

\* the indexes of the discovered groups the loop prepared, in order
Visited ==
    LET IsVisit(e) == /\ e[1] = "prepare_ocr_for_group"
                      /\ e[2] < Len(cons.state["ioc_groups"])
        visits == SelectSeq(cons.log, IsVisit)
    IN [i \in DOMAIN visits |-> visits[i][2]]

Stopped == cons.pc \in {"END", "raised"}

\* C20 as stated: the outer loop visits every discovered group exactly once in
\* index order; the index advances by one per iteration and no group is
\* skipped, also when a group has no files, when OCR fails for all its files
\* or when its classification fails.
C20_EveryGroupVisitedOnce ==
    /\ \A i \in DOMAIN Visited : Visited[i] = i - 1
    /\ cons.pc = "prepare_ocr_for_group" =>
          cons.state["ocr_current_ioc_group_index"] = Len(Visited)
    /\ Stopped => Len(Visited) = Len(cons.state["ioc_groups"])

\* the files of the records of a metadata list
FilesIn(metadata) == {metadata[i].file : i \in DOMAIN metadata}

\* the OCR phase of a prepared group is about to start with its first file
OcrStarts ==
    /\ cons.pc = "process_file_with_ocr"
    /\ cons.state["ocr_current_ioc_group_key"] # None
    /\ cons.state["ocr_current_file_index"] = 0

\* C21 as stated: at the start of the OCR phase of every group the
\* current-group metadata list is empty, and the metadata persisted for a group
\* holds records of that group's files only.
C21_GroupMetadataStartsEmpty ==
    /\ OcrStarts => cons.state["ocr_current_group_metadata"] = <<>>
    /\ \A g \in DOMAIN cons.state["ioc_groups"] :
          GroupKey(g - 1) \in DOMAIN cons.state["ocr_metadata"] =>
             FilesIn(cons.state["ocr_metadata"][GroupKey(g - 1)])
                \subseteq Range(cons.state["ioc_groups"][g].files)

\* the consistency check of the group with index g - 1 has just run
CheckedGroup(g) ==
    /\ cons.pc = "update_metadata_with_extraction"
    /\ cons.state["extraction_current_ioc_group_key"] = GroupKey(g - 1)

\* C22 as stated: the consistency check executed for a group reads the
\* extraction results of that group's files only.
C22_CheckReadsOwnGroupOnly ==
    \A g \in DOMAIN cons.state["ioc_groups"] :
        CheckedGroup(g) =>
            DOMAIN cons.sub["extraction_results"]
                \subseteq Range(cons.state["ioc_groups"][g].files)

\* the nodes of the checking sub-graph that ran for the group being persisted
ChecksRun == DOMAIN cons.xwrites \cap {"check_quantity_consistency", "check_date_consistency"}

\* C23 as stated: for every group that reaches the check phase with non-empty
\* extraction results, the quantity check and the date-order check have both
\* run on them when the persistence step starts, and the Error Items of both
\* are in the error list.
C23_BothChecksRun ==
    (/\ cons.pc = "update_metadata_with_extraction"
     /\ DOMAIN cons.sub["extraction_results"] # {}) =>
        /\ ChecksRun = {"check_quantity_consistency", "check_date_consistency"}
        /\ Range(check_quantity_consistency(cons.sub["extraction_results"]))
              \subseteq Range(cons.state["errors"])
        /\ Range(check_date_consistency(cons.sub["extraction_results"]))
              \subseteq Range(cons.state["errors"])

\* a step of classification or persistence that added to the error list: the
\* step caught a fault
FaultCaught ==
    /\ cons.pc \in {"classify_ioc_group_documents", "update_metadata_with_extraction"}
    /\ cons'.state["errors"] # cons.state["errors"]

\* the key of the group a step of the pipeline works on
KeyAtStep ==
    IF cons.pc = "classify_ioc_group_documents" THEN cons.state["ocr_current_ioc_group_key"]
    ELSE cons.state["extraction_current_ioc_group_key"]

\* the error list holds the Error Item of a fault in the group's classification
\* or persistence
FaultOf(errors, key) ==
    \E i \in DOMAIN errors :
        /\ errors[i].error_type \in {"classification_error", "metadata_update_error"}
        /\ errors[i].error_location = key

\* C24 as stated: a fault in the classification or the persistence of a group
\* adds exactly one Error Item, naming the group's key, to the error list, and
\* the iteration ends with the index on the next group.
C24_OneErrorPerFault ==
    [][/\ FaultCaught =>
             /\ Len(cons'.state["errors"]) = Len(cons.state["errors"]) + 1
             /\ SubSeq(cons'.state["errors"], 1, Len(cons.state["errors"]))
                   = cons.state["errors"]
             /\ cons'.state["errors"][Len(cons'.state["errors"])].error_location = KeyAtStep
       /\ (/\ cons.pc = "update_metadata_with_extraction"
           /\ FaultOf(cons'.state["errors"], GroupKey(LastPrepared(cons.log)))) =>
             cons'.state["ocr_current_ioc_group_index"] = LastPrepared(cons.log) + 1]_vars

\* a step of the file OCR sub-pipeline that returned
OcrStep == cons.pc = "process_file_with_ocr" /\ cons'.pc # "raised"

\* the file the step worked on
StepFile ==
    cons.state["ocr_current_group_files"][cons.state["ocr_current_file_index"] + 1]

\* C25: when the OCR capability reports failure or raises for a file, the file
\* has an empty page list, no page file and no File Metadata record; the file
\* index advances by exactly one all the same, and every step of the
\* sub-pipeline works on the file the index points at, so that a later file of
\* the group is recognized, and recorded when a page of it is saved, whatever
\* happened to the files before it.
C25_OcrFailureIsLocal ==
    [][OcrStep =>
          /\ cons'.ocr["ocr_current_file_path"] = StepFile
          /\ cons'.state["ocr_current_file_index"] = cons.state["ocr_current_file_index"] + 1
          /\ cons'.pc = IF cons'.state["ocr_current_file_index"]
                            < Len(cons.state["ocr_current_group_files"])
                        THEN "process_file_with_ocr" ELSE "classify_ioc_group_documents"
          /\ ~cons'.ocr["ocr_success"] =>
                /\ cons'.ocr["ocr_per_page_content"] = <<>>
                /\ cons'.ocr["ocr_page_files"] = <<>>
                /\ StepFile \notin FilesIn(cons'.state["ocr_current_group_metadata"])
                /\ cons'.state["ocr_results"] = cons.state["ocr_results"]
          /\ cons'.ocr["ocr_page_files"] # <<>> =>
                StepFile \in FilesIn(cons'.state["ocr_current_group_metadata"])]_vars

\* the OCR of the group's first file failed and that of its second file saved
\* a page: the second file alone has a record
C25_Witness ==
    /\ cons.pc = "classify_ioc_group_documents"
    /\ cons.log = <<<<"prepare_ocr_for_group", 0>>,
                    <<"process_file_with_ocr", GroupFile(1, 1)>>,
                    <<"process_file_with_ocr", GroupFile(1, 2)>>>>
    /\ FilesIn(cons.state["ocr_current_group_metadata"]) = {GroupFile(1, 2)}
    /\ DOMAIN cons.state["ocr_results"]["group1"] = {GroupFile(1, 2)}
    /\ cons.ocr["ocr_success"]

\* the number of records a metadata list holds for a file
RecordsOf(metadata, file) == Cardinality({i \in DOMAIN metadata : metadata[i].file = file})

\* C26 as stated: a file that finished OCR with a saved page has exactly one
\* record in the current-group metadata list as long as its group is being
\* processed, and exactly one record in the metadata persisted for its group.
C26_OneRecordPerFile ==
    \A key \in DOMAIN cons.state["ocr_results"] :
    \A file \in DOMAIN cons.state["ocr_results"][key] :
        /\ cons.state["ocr_current_ioc_group_key"] = key =>
              RecordsOf(cons.state["ocr_current_group_metadata"], file) = 1
        /\ key \in DOMAIN cons.state["ocr_metadata"] =>
              RecordsOf(cons.state["ocr_metadata"][key], file) = 1

\* how often an item occurs in a list
Occurrences(list, item) == Cardinality({i \in DOMAIN list : list[i] = item})

\* C27 as stated: when the root run has ended, its error list holds the Error
\* Items the steps of the normative and of the consistency pipeline produced,
\* each as often as it was produced (no step is retried) and nothing else.
C27_RootErrorsAreTheProduced ==
    root.pc = "END" =>
        \A item \in Range(root.errors) \cup Range(root.made) :
            Occurrences(root.errors, item) = Occurrences(root.made, item)

\* a verification call confirmed the identifier as filled, sealed or signed
Confirmed(ns, page, i) ==
    /\ <<page, i>> \in DOMAIN Responses(ns)'
    /\ Responses(ns)'[<<page, i>>] = "positive"

\* an Error Item of the page lists the identifier as negative
Listed(ns, file, page, identifier) ==
    \E j \in ItemsOfPage(ns, file, page) :
        identifier \in Range(NewErrors(ns)[j].metadata.missing)

\* C28 as stated: an execution of Verify accounts for every identifier the
\* identifier map holds for the current file: a verification call confirmed it,
\* or an Error Item of its page lists it as negative; a blank identifier name,
\* a missing page image or a failed load of the file drops none.
C28_EveryIdentifierAccounted ==
    [][\A ns \in Namespaces :
        (StageRan(ns, 3) /\ InRange(sub[ns], ns, 3)) =>
            LET file == CurrentFile(sub[ns], ns, 3)
                extracted == Get(sub[ns][IdentifiersField(ns)], file, <<>>)
            IN \A p \in DOMAIN extracted :
                  \A i \in DOMAIN extracted[p] :
                     Confirmed(ns, p, i) \/ Listed(ns, file, p, extracted[p][i])]_vars

\* the persistence step of a group that saves the group's metadata file
Saves ==
    /\ cons.pc = "update_metadata_with_extraction"
    /\ cons.state["extraction_current_ioc_group_key"] # None
    /\ cons.state["extraction_current_ioc_group_key"] \in DOMAIN cons'.state["ocr_metadata"]

\* the record carries the file's classification and its extraction results
Carries(record, file) ==
    /\ record.file = file
    /\ record.category = cons.disk[file]
    /\ file \in DOMAIN cons.state["extraction_results"] =>
          /\ "results" \in DOMAIN record
          /\ \A k \in DOMAIN cons.state["extraction_results"][file] :
                /\ k \in DOMAIN record.results
                /\ record.results[k] = cons.state["extraction_results"][file][k]

\* C29 as stated: after the persistence step of a group has saved, the group's
\* metadata file holds, for every file of the group that finished OCR in this
\* run (the files of the current-group metadata list), a record carrying its
\* classification and its extraction results, also when a metadata file of the
\* group was on disk before the run.
C29_MetadataFileCoversGroup ==
    [][Saves =>
          LET key == cons.state["extraction_current_ioc_group_key"] IN
          \A file \in FilesIn(cons.state["ocr_current_group_metadata"]) :
              \E i \in DOMAIN cons'.stored[key] : Carries(cons'.stored[key][i], file)]_vars

\* a page matches a classification rule: its file is there, can be read, and
\* a rule matches its text
Matches(page_file) == page_file.exists /\ page_file.readable /\ page_file.rules # {}

\* the first category, in the order goods-receipt, delivery-note, contract,
\* whose rule matches the page
FirstCategory(page_file) ==
    IF "purchase_receipt" \in page_file.rules THEN "purchase_receipt"
    ELSE IF "delivery_note" \in page_file.rules THEN "delivery_note"
    ELSE "purchase_contract"

\* C30: a file is classified by the first of its pages, in page order, that
\* matches a classification rule, as the first matching category of that page
\* in the order goods-receipt, delivery-note, contract; no page after it is
\* read; a file none of whose pages matches is tagged unclassified.
C30_FirstPageFirstRule ==
    cons.pc = "classified" =>
        LET matching == {i \in DOMAIN cons.pages : Matches(cons.pages[i])} IN
        IF matching = {}
        THEN cons.result.category = Unclassified /\ cons.result.matched_page = 0
        ELSE LET first == CHOOSE i \in matching : \A j \in matching : i <= j IN
             /\ cons.result.matched_page = first
             /\ cons.result.category = FirstCategory(cons.pages[first])
             /\ \A i \in cons.result.opened : i <= first

\* a file classified whose first page is missing, whose second page matches
\* the delivery-note and the contract rule and whose third page matches the
\* goods-receipt rule: it is a delivery note by its second page
C30_Witness ==
    /\ cons.pc = "classified"
    /\ Len(cons.pages) = 3
    /\ ~cons.pages[1].exists
    /\ cons.pages[2].rules = {"delivery_note", "purchase_contract"}
    /\ cons.pages[3].rules = {"purchase_receipt"}
    /\ cons.result.category = "delivery_note"
    /\ cons.result.matched_page = 2
    /\ cons.result.opened = {2}

\* list a is the beginning of list b
IsPrefix(a, b) == Len(a) <= Len(b) /\ SubSeq(b, 1, Len(a)) = a

\* the error list of the consistency pipeline and of the root graph, when run
ConsErrors(c) == IF "state" \in DOMAIN c THEN c.state["errors"] ELSE <<>>

RootErrors(r) == IF "errors" \in DOMAIN r THEN r.errors ELSE <<>>

SchemaFields == {"error_category", "error_type", "metadata"}

UnifiedItem(item) ==
    /\ SchemaFields \subseteq DOMAIN item
    /\ item.error_category \in {"normative", "consistency"}

\* C32 as stated: every Error Item in the error list has the fields of the
\* unified schema, with error_category normative or consistency and an
\* error_type, also the Error Items created when classification or
\* persistence fails.
C32_ErrorItemsFollowSchema ==
    \A i \in DOMAIN ConsErrors(cons) : UnifiedItem(ConsErrors(cons)[i])

\* C33 as stated: the consistency pipeline never raises; a group that is
\* skipped (no group discovered, the group's folder missing, or no supported
\* file in it: no group key is set) does not enter the OCR steps.
C33_SkippedGroupsNeverRaise ==
    /\ cons.pc # "raised"
    /\ cons.pc = "process_file_with_ocr" => cons.state["ocr_current_ioc_group_key"] # None

\* C34 as stated: an extraction branch makes no capability call for a file
\* whose record already holds the branch's result, and returns the stored
\* result unchanged.
C34_StoredResultsReused ==
    cons.pc = "extracted" =>
        \A i \in DOMAIN cons.documents :
            cons.prompt_name \in DOMAIN cons.documents[i].existing =>
                /\ \A c \in cons.returned.calls : c[1] # i
                /\ cons.documents[i].file \in DOMAIN cons.returned.results
                /\ cons.returned.results[cons.documents[i].file]
                      = cons.documents[i].existing[cons.prompt_name]

\* a line item with a name and a quantity that parses as a number
ValidItem(item) == item.name # "" /\ item.quantity \notin {Blank, NotANumber}

\* the sum of the quantities of the valid line items of a key
RECURSIVE ValidSum(_, _)
ValidSum(rows, key) ==
    IF rows = <<>> THEN 0
    ELSE (IF ValidItem(Head(rows)) /\ <<Head(rows).name, Head(rows).spec>> = key
          THEN Head(rows).quantity[2] ELSE 0)
         + ValidSum(Tail(rows), key)

\* the page results without the line items that are not valid
ValidOnly(items_data) ==
    [p \in DOMAIN items_data |->
        PageResult(SelectSeq(items_data[p].items, ValidItem), items_data[p].dates)]

\* the page results of a document type in the extraction results
ItemsData(type, key) ==
    ResultsOfType(cons.state["extraction_results"],
                  DOMAIN cons.state["extraction_results"], type, key)

SumsValidItems(aggregate, items_data) ==
    /\ DOMAIN aggregate =
          {<<Rows(items_data)[i].name, Rows(items_data)[i].spec>> :
              i \in {j \in DOMAIN Rows(items_data) : ValidItem(Rows(items_data)[j])}}
    /\ \A key \in DOMAIN aggregate : aggregate[key] = ValidSum(Rows(items_data), key)

OwnField(ns, k, field) == field[1] = ns \/ (k = 3 /\ field = ERRORS)

\* every update the stage can return in this state, over every outcome of
\* load_images and every response of the vision capability
StageUpdates(ns, k) ==
    {StageNode(k, ns, sub[ns], load, resp) :
        <<load, resp>> \in
            UNION {{<<l, r>> : r \in [StageCalls(k, ns, sub[ns], l) -> StageOutcomes(k)]} :
                      l \in LoadOutcomes(Pages(sub[ns], ns, k))}}

\* C36: whatever the documents and the vision capability answer, the update a
\* Detect, Extract or Verify node of a namespace returns holds only fields
\* of its own namespace and, for Verify, the error list; the shared file list
\* and the fields of the other namespaces are never among its keys
C36_StageWritesOwnNamespace ==
    \A ns \in Namespaces : \A k \in 1..3 :
        pc[ns] = StageName(k) =>
            \A update \in StageUpdates(ns, k) :
                /\ \A field \in DOMAIN update : OwnField(ns, k, field)
                /\ FILES \notin DOMAIN update
                /\ \A other \in Namespaces \ {ns} :
                      \A field \in DOMAIN update : field[1] # other

\* Verify of the second file is about to run after Detect recorded regions
\* and Extract recorded identifiers for it, the first file having produced an
\* Error Item: each kind of update has been returned
C36_Witness ==
    \E ns \in Namespaces :
        /\ pc[ns] = "verify"
        /\ sub[ns][IndexField(ns, 3)] = 1
        /\ sub[ns][ERRORS] # <<>>
        /\ FilePool[2] \in DOMAIN sub[ns][RegionsField(ns)]
        /\ FilePool[2] \in DOMAIN sub[ns][IdentifiersField(ns)]

\* ---------------------------------------------------------------- C37
\* the three indexes of a namespace's streaming loop
StepIndex(ns, k) == sub[ns][IndexField(ns, k)]

InLoop(ns) == pc[ns] \in {"detect", "extract", "verify", "end"}

\* the files the three nodes of each completed iteration worked on
SameFilePerIteration(ns) ==
    \A i \in 1..Len(log[ns]) :
        i % 3 = 0 =>
            /\ log[ns][i - 2][1] = "detect"
            /\ log[ns][i - 1] = <<"extract", log[ns][i - 2][2]>>
            /\ log[ns][i] = <<"verify", log[ns][i - 2][2]>>

\* C37: in every state of a namespace's streaming loop the indexes are
\* ordered, step3 <= step2 <= step1 <= number of files, and Detect is at most
\* one file ahead of Verify; where the loop condition is evaluated (Verify has
\* returned, or the loop has not started) the three are equal, and the three
\* nodes of one iteration work on the same file
C37_IndexesStayTogether ==
    \A ns \in Namespaces :
        InLoop(ns) =>
            /\ StepIndex(ns, 3) <= StepIndex(ns, 2)
            /\ StepIndex(ns, 2) <= StepIndex(ns, 1)
            /\ StepIndex(ns, 1) <= Len(sub[ns][FILES])
            /\ StepIndex(ns, 1) - StepIndex(ns, 3) <= 1
            /\ pc[ns] \in {"detect", "end"} =>
                  /\ StepIndex(ns, 1) = StepIndex(ns, 2)
                  /\ StepIndex(ns, 2) = StepIndex(ns, 3)
            /\ pc[ns] = "verify" => StepIndex(ns, 1) = StepIndex(ns, 2)
            /\ SameFilePerIteration(ns)

\* the second iteration of a two-file run is between Extract and Verify:
\* Detect and Extract are one file ahead of Verify
C37_Witness ==
    \E ns \in Namespaces :
        /\ pc[ns] = "verify"
        /\ Len(sub[ns][FILES]) = 2
        /\ StepIndex(ns, 1) = 2
        /\ StepIndex(ns, 2) = 2
        /\ StepIndex(ns, 3) = 1

\* ---------------------------------------------------------------- C38
OrderReported(check_type) == ErrorsOfType(check_type) # {}

\* C38: the date-order check never returns the contract-later-than-receipt
\* Error Item alone: with it comes the contract-later-than-delivery one or the
\* delivery-later-than-receipt one; and when those two are both returned the
\* contract-later-than-receipt one is returned too, three Error Items in all
C38_ContractReceiptNeverAlone ==
    DateChecked =>
        /\ OrderReported("date_order_contract_receipt") =>
              \/ OrderReported("date_order_contract_delivery")
              \/ OrderReported("date_order_delivery_receipt")
        /\ OrderReported("date_order_contract_delivery") /\ OrderReported("date_order_delivery_receipt") =>
              /\ OrderReported("date_order_contract_receipt")
              /\ Len(DateErrors) = 3

\* contract 3 April, delivery note 2 April, receipt 1 April: all three
\* orders are violated and three Error Items are returned
C38_Witness ==
    /\ DateChecked
    /\ ContractDated = {DateText(2023, 4, 3)}
    /\ DeliveryDated = {DateText(2023, 4, 2)}
    /\ ReceiptDated = {DateText(2023, 4, 1)}
    /\ Len(DateErrors) = 3
    /\ OrderReported("date_order_contract_receipt")

====
